---- MODULE Spec2Model ----
(***************************************************************************)
(* tmd-viewer (src/src/server.rs): the ingestion and thumbnail pipeline.   *)
(*                                                                         *)
(* State: the Governor counter (AppState.scanner_count), the three tables  *)
(* of the Feed Store (files, feeds, media), the data directory, and the    *)
(* position of every HTTP handler and background loop.  Every handler runs *)
(* on one of actix-web's worker threads and every loop on its own thread,  *)
(* so the steps below interleave at each lock acquisition and at each SQL  *)
(* statement (or transaction).                                             *)
(*                                                                         *)
(* Values.  A Rust Option / a nullable column is None or Some(v).  A text  *)
(* whose characters matter is a sequence of 1-character strings.  The text *)
(* of a date column is a tagged record: DateText(...) is the text          *)
(* "YYYY/MM/DD HH:MM:SS" with those field values, Text(s) is any other     *)
(* text.  A status URL is the record of the parts the regex looks at.      *)
(***************************************************************************)
EXTENDS Integers, Sequences, FiniteSets, TLC

(***************************************************************************)
(* Bounds of the model.                                                    *)
(***************************************************************************)
\* number of trigger requests (scan or thumbnail) of a run of SpecGovernor
MaxJobs == 3
\* number of trigger requests (scan or thumbnail) of a run of Spec
MaxLoops == 2
\* number of clean requests that get past the busy test in a run
MaxCleans == 1
\* the wall clock (strftime('%s','now')) is observed up to this value and
\* saturates there
MaxClock == 1
\* the configuration file holds a time_offset of -MaxConfigHour..MaxConfigHour
\* whole hours
MaxConfigHour == 25
\* number of scan requests of a run of SpecStartup
MaxScans == 1

(***************************************************************************)
(* Program constants.                                                      *)
(***************************************************************************)
DEFAULT_SCANNER_COUNT_LIMIT == 2
DEFAULT_TIME_OFFSET_HOUR == 0
DEFAULT_PAGE == 0
DEFAULT_PAGE_COUNT == 100
ONE_HOUR_I32 == 3600

\* AppState.scanner_count_limit as serve() sets it when the configuration
\* file does not override the default
scanner_count_limit == DEFAULT_SCANNER_COUNT_LIMIT

\* AppState.time_offset, in whole hours: set once by serve() and read-only
\* afterwards
VARIABLE time_offset

\* the hours serve() accepts from the configuration file: it panics on
\* time_offset_hour < -24 or time_offset_hour > 24
AcceptedTimeOffsets == {h \in -MaxConfigHour..MaxConfigHour : ~(h < -24 \/ h > 24)}

(***************************************************************************)
(* Option                                                                  *)
(***************************************************************************)
None == <<>>
Some(v) == <<v>>
IsSome(o) == o # <<>>
Unwrap(o) == o[1]

(***************************************************************************)
(* Texts                                                                   *)
(***************************************************************************)
Text(s) == [kind |-> "text", chars |-> s]
DateText(y, mo, d, h, mi, s) ==
    [kind |-> "date", y |-> y, mo |-> mo, d |-> d, h |-> h, mi |-> mi, s |-> s]

\* u8::to_ascii_lowercase on the letters the model's texts use
LowerChar(c) ==
    CASE c = "A" -> "a" [] c = "B" -> "b" [] c = "C" -> "c"
      [] c = "D" -> "d" [] c = "E" -> "e" [] OTHER -> c

\* str::to_ascii_lowercase
to_ascii_lowercase(s) == [i \in DOMAIN s |-> LowerChar(s[i])]

(***************************************************************************)
(* str_to_timestamp: NaiveDateTime::parse_from_str(value,                  *)
(* "%Y/%m/%d %H:%M:%S"), then the epoch second of that local time at the   *)
(* fixed offset (seconds east of UTC).                                     *)
(***************************************************************************)
IsLeap(y) == (y % 4 = 0 /\ y % 100 # 0) \/ y % 400 = 0

DaysInMonth(y, m) ==
    CASE m \in {1, 3, 5, 7, 8, 10, 12} -> 31
      [] m \in {4, 6, 9, 11} -> 30
      [] OTHER -> IF IsLeap(y) THEN 29 ELSE 28

RECURSIVE DaysBeforeYear(_)
DaysBeforeYear(y) ==
    IF y <= 1970 THEN 0
    ELSE DaysBeforeYear(y - 1) + (IF IsLeap(y - 1) THEN 366 ELSE 365)

RECURSIVE DaysBeforeMonth(_, _)
DaysBeforeMonth(y, m) ==
    IF m <= 1 THEN 0 ELSE DaysBeforeMonth(y, m - 1) + DaysInMonth(y, m - 1)

\* what parse_from_str accepts: a date text whose fields are in range
\* (a second of 60 is read as a leap second of second 59)
ParsesAsDateTime(value) ==
    /\ value.kind = "date"
    /\ value.y >= 1970
    /\ value.mo \in 1..12
    /\ value.d \in 1..DaysInMonth(value.y, value.mo)
    /\ value.h \in 0..23
    /\ value.mi \in 0..59
    /\ value.s \in 0..60

LocalSeconds(value) ==
    (DaysBeforeYear(value.y) + DaysBeforeMonth(value.y, value.mo) + (value.d - 1)) * 86400
    + value.h * 3600 + value.mi * 60 + (IF value.s = 60 THEN 59 ELSE value.s)

str_to_timestamp(value, offset) ==
    IF ParsesAsDateTime(value) THEN Some(LocalSeconds(value) - offset) ELSE None

(***************************************************************************)
(* TWITTER_URL_REGEX and the parse of its second capture group.            *)
(***************************************************************************)
Url(scheme, host, user, seg, digits) ==
    [scheme |-> scheme, host |-> host, user |-> user, seg |-> seg, digits |-> digits]

TWITTER_URL_REGEX(url) ==
    /\ url.scheme \in {"http", "https"}
    /\ url.host \in {"twitter.com", "mobile.twitter.com"}
    /\ Len(url.user) >= 1
    /\ url.seg = "status"
    /\ Len(url.digits) >= 1

RECURSIVE ParseI64(_)
ParseI64(digits) ==
    IF digits = <<>> THEN 0
    ELSE 10 * ParseI64(SubSeq(digits, 1, Len(digits) - 1)) + digits[Len(digits)]


\* FixedOffset::east(offset) panics unless -86400 < offset < 86400; it is
\* reached only for a text that parsed
FixedOffsetEastPanics(value, offset) ==
    ParsesAsDateTime(value) /\ ~(offset > -86400 /\ offset < 86400)

(***************************************************************************)
(* Feed Store: the tables.                                                 *)
(*   files : file_path -> [scan_started_at, scan_ended_at]                 *)
(*   feeds : set of rows                                                   *)
(*   media : rows in insertion (rowid) order                               *)
(* The CREATE TABLE / CREATE INDEX texts are include_str!-ed files that    *)
(* are not among the sources; the keys below are the ones the persisted    *)
(* layout of the specification names.                                      *)
(***************************************************************************)
FeedKey(row) == row.feed_id
MediaKey(row) == <<row.feed_id, row.media_id>>
FileKey(file_path) == file_path

FileRow(started, ended) == [scan_started_at |-> started, scan_ended_at |-> ended]

\* INSERT OR IGNORE INTO feeds: a row whose key is present is dropped
InsertOrIgnoreFeedAlways(fs, row) == fs \cup {row}
InsertOrIgnoreFeed(fs, row) ==
    IF \E f \in fs : FeedKey(f) = FeedKey(row) THEN fs ELSE fs \cup {row}

\* insert_feed_stmt with the parameters insert_feed binds
insert_feed(fs, feed_id, user_name, feed_at, twitter_url, contents) ==
    InsertOrIgnoreFeed(fs,
        [feed_id |-> feed_id, user_name |-> user_name, retweet_id |-> 0,
         retweet_user_name |-> <<>>, feed_at |-> feed_at,
         twitter_url |-> twitter_url, contents |-> Some(contents)])

\* insert_retweet_stmt with the parameters insert_retweet binds: $1, the
\* feed_id, is the literal 0; contents is not in the column list
insert_retweet(fs, retweet_id, retweet_user_name, user_name, retweet_at, twitter_url) ==
    InsertOrIgnoreFeed(fs,
        [feed_id |-> 0, user_name |-> user_name, retweet_id |-> retweet_id,
         retweet_user_name |-> retweet_user_name, feed_at |-> retweet_at,
         twitter_url |-> twitter_url, contents |-> None])

\* media_row of insert_media_stmt: ROW_NUMBER() over the rows of the feed,
\* largest first, i.e. the number of Media rows of that feed; NULL (here 0,
\* as IFNULL makes it) when the feed has none
MediaCount(ms, feed_id) == Cardinality({i \in DOMAIN ms : ms[i].feed_id = feed_id})

next_media_id_from_zero(ms, feed_id) == MediaCount(ms, feed_id)
next_media_id(ms, feed_id) == MediaCount(ms, feed_id) + 1

\* insert_media_stmt with the parameters insert_media binds
insert_media(ms, feed_id, media_type, media_url, file_path, media_path) ==
    LET row == [feed_id |-> feed_id, media_id |-> next_media_id(ms, feed_id),
                media_type |-> media_type, media_url |-> media_url,
                file_path |-> file_path, media_path |-> media_path,
                thumbnail |-> None, deleted_at |-> None]
    IN IF \E i \in DOMAIN ms : MediaKey(ms[i]) = MediaKey(row) THEN ms ELSE Append(ms, row)

(***************************************************************************)
(* The Reconciler.  db is the state of one open transaction:               *)
(* [feeds, media, panicked]; panicked records that an unwrap() failed, in  *)
(* which case the caller's thread unwinds and the transaction rolls back.  *)
(***************************************************************************)
CsvRecord(feed_date, action_date, user_name, twitter_url, media_type, media_url, media_file_path, content) ==
    [well_formed |-> TRUE, feed_date |-> feed_date, action_date |-> action_date,
     user_name |-> user_name, twitter_url |-> twitter_url, media_type |-> media_type,
     media_url |-> media_url, media_file_path |-> media_file_path, content |-> content]

\* a line csv.deserialize() cannot turn into a FeedCsvRecord
MalformedRecord == [well_formed |-> FALSE]

\* errors names the insert statements ("feed", "retweet", "media") whose
\* execute returns Err for this record: insert_feed, insert_retweet and
\* insert_media print the error and return, and the record goes on
process_csv_record_stmt(db, record, origin, zip_path, time_offset_ms, errors) ==
    LET matched == TWITTER_URL_REGEX(record.twitter_url)
        id == ParseI64(record.twitter_url.digits)
        feed_at == str_to_timestamp(record.feed_date, time_offset_ms)
        action_at == str_to_timestamp(record.action_date, time_offset_ms)
        user == to_ascii_lowercase(record.user_name)
    IN
    IF ~matched THEN db
    ELSE IF \/ FixedOffsetEastPanics(record.feed_date, time_offset_ms)
            \/ FixedOffsetEastPanics(record.action_date, time_offset_ms)
            \/ ~IsSome(feed_at)
         THEN [db EXCEPT !.panicked = TRUE]
    ELSE
        LET fs1 == IF "feed" \in errors THEN db.feeds
                   ELSE insert_feed(db.feeds, id, user, Unwrap(feed_at),
                                    record.twitter_url, record.content)
            fs2 == IF IsSome(action_at) /\ "retweet" \notin errors
                   THEN insert_retweet(fs1, id, user, origin, Unwrap(action_at),
                                       record.twitter_url)
                   ELSE fs1
            ms1 == IF record.media_url # "" /\ record.media_file_path # "" /\ "media" \notin errors
                   THEN insert_media(db.media, id, record.media_type, record.media_url,
                                     zip_path, record.media_file_path)
                   ELSE db.media
        IN [db EXCEPT !.feeds = fs2, !.media = ms1]

\* the record when every statement succeeds
process_csv_record(db, record, origin, zip_path, time_offset_ms) ==
    process_csv_record_stmt(db, record, origin, zip_path, time_offset_ms, {})

\* the loop of process_csv from record number record_count + 1 on;
\* errors_at gives, for the record numbers in its domain, the statements
\* that return Err
RECURSIVE process_csv_from_stmt(_, _, _, _, _, _)
process_csv_from_stmt(db, csv, record_count, origin, zip_file_name, errors_at) ==
    IF record_count >= Len(csv) \/ db.panicked THEN db
    ELSE
        LET n == record_count + 1
            rec == csv[n]
            origin1 == IF rec.well_formed /\ n = 3
                       THEN to_ascii_lowercase(rec.action_date.chars)
                       ELSE origin
            db1 == IF rec.well_formed /\ n > 6
                   THEN process_csv_record_stmt(db, rec, origin1, zip_file_name,
                                                time_offset * ONE_HOUR_I32,
                                                IF n \in DOMAIN errors_at THEN errors_at[n] ELSE {})
                   ELSE db
        IN process_csv_from_stmt(db1, csv, n, origin1, zip_file_name, errors_at)

\* the loop when every statement succeeds
process_csv_from(db, csv, record_count, origin, zip_file_name) ==
    process_csv_from_stmt(db, csv, record_count, origin, zip_file_name, <<>>)

\* a variant that starts counting at the first data row: no origin is taken
process_csv_from_data_row(db, csv, zip_file_name) ==
    process_csv_from(db, csv, 6, <<>>, zip_file_name)

process_csv(db, csv, zip_file_name) ==
    process_csv_from(db, csv, 0, <<>>, zip_file_name)


(***************************************************************************)
(* The data directory.  An archive file is                                 *)
(*   [is_zip  : ZipArchive::new succeeds on it,                            *)
(*    csvs    : its entries with extension csv, in index order, each the   *)
(*              sequence of its records,                                   *)
(*    entries : in-archive path -> what the entry is: "image" (decodes and *)
(*              encodes), "undecodable", "unencodable", "video" (a file    *)
(*              that is no image), "dir", "encrypted" (by_name fails) or   *)
(*              "corrupt" (reading its content fails)].                    *)
(***************************************************************************)
NoUrl == Url("", "", <<>>, "", <<>>)
HeaderRecord(action_date) ==
    CsvRecord(Text(<<>>), Text(action_date), <<>>, NoUrl, "", "", "", <<>>)

Header ==
    << HeaderRecord(<<>>), HeaderRecord(<<>>),
       HeaderRecord(<<"@", "A", "l", "i", "c", "e">>),
       HeaderRecord(<<>>), HeaderRecord(<<>>), HeaderRecord(<<>>) >>

Day1 == DateText(1970, 1, 2, 0, 0, 0)
Day2 == DateText(1970, 1, 3, 0, 0, 1)

StatusUrl(user, digits) == Url("https", "twitter.com", user, "status", digits)

\* a tweet of bob with two images, and two retweets
CsvA ==
    Header \o
    << CsvRecord(Day1, Text(<<>>), <<"B", "o", "b">>, StatusUrl(<<"b", "o", "b">>, <<4, 2>>),
                 "Image", "http://img/x.jpg", "img/x.jpg", <<"h", "i">>),
       CsvRecord(Day1, Text(<<>>), <<"B", "o", "b">>, StatusUrl(<<"b", "o", "b">>, <<4, 2>>),
                 "Image", "http://img/y.jpg", "img/y.jpg", <<"h", "i">>),
       CsvRecord(Day1, Day2, <<"C", "a", "l">>, StatusUrl(<<"c", "a", "l">>, <<4, 3>>),
                 "", "", "", <<"y", "o">>),
       CsvRecord(Day1, Day2, <<"D", "e", "b">>, StatusUrl(<<"d", "e", "b">>, <<4, 4>>),
                 "", "", "", <<"o", "k">>) >>

\* a second export that holds tweet 42 again, and one malformed line
CsvB ==
    Header \o
    << MalformedRecord,
       CsvRecord(Day2, Text(<<>>), <<"B", "o", "b">>, StatusUrl(<<"b", "o", "b">>, <<4, 2>>),
                 "Image", "http://img/z.jpg", "img/z.jpg", <<"h", "i">>) >>

ArchiveA ==
    [is_zip |-> TRUE, csvs |-> <<CsvA>>,
     entries |-> ("img/x.jpg" :> "image" @@ "img/y.jpg" :> "image")]
ArchiveB ==
    [is_zip |-> TRUE, csvs |-> <<CsvB>>, entries |-> ("img/z.jpg" :> "image")]
ArchiveBadImages ==
    [is_zip |-> TRUE, csvs |-> <<CsvA>>,
     entries |-> ("img/x.jpg" :> "undecodable" @@ "img/y.jpg" :> "unencodable")]
ArchiveCorrupt ==
    [is_zip |-> FALSE, csvs |-> <<>>, entries |-> <<>>]

\* the data directories the runs start from: file name -> archive file
DataDirs ==
    { "a.zip" :> ArchiveA,
      "a.zip" :> ArchiveBadImages,
      "a.zip" :> ArchiveCorrupt @@ "b.zip" :> ArchiveB }

\* an export whose tweet 42 has an image that is in the archive and one that
\* is not, and whose tweet 45 has a video
CsvMedia ==
    Header \o
    << CsvRecord(Day1, Text(<<>>), <<"B", "o", "b">>, StatusUrl(<<"b", "o", "b">>, <<4, 2>>),
                 "Image", "http://img/x.jpg", "img/x.jpg", <<"h", "i">>),
       CsvRecord(Day1, Text(<<>>), <<"B", "o", "b">>, StatusUrl(<<"b", "o", "b">>, <<4, 2>>),
                 "Image", "http://img/g.jpg", "img/gone.jpg", <<"h", "i">>),
       CsvRecord(Day2, Text(<<>>), <<"C", "a", "l">>, StatusUrl(<<"c", "a", "l">>, <<4, 5>>),
                 "Video", "http://vid/v.mp4", "vid/v.mp4", <<"y", "o">>) >>

\* an export whose tweet 46 has two images the archive cannot deliver
CsvUnreadable ==
    Header \o
    << CsvRecord(Day1, Text(<<>>), <<"D", "e", "b">>, StatusUrl(<<"d", "e", "b">>, <<4, 6>>),
                 "Image", "http://img/e.jpg", "img/e.jpg", <<"o", "k">>),
       CsvRecord(Day1, Text(<<>>), <<"D", "e", "b">>, StatusUrl(<<"d", "e", "b">>, <<4, 6>>),
                 "Image", "http://img/c.jpg", "img/c.jpg", <<"o", "k">>) >>

ArchiveMedia ==
    [is_zip |-> TRUE, csvs |-> <<CsvMedia>>,
     entries |-> ("img/x.jpg" :> "image" @@ "vid/v.mp4" :> "video")]
ArchiveUnreadable ==
    [is_zip |-> TRUE, csvs |-> <<CsvUnreadable>>,
     entries |-> ("img/e.jpg" :> "encrypted" @@ "img/c.jpg" :> "corrupt")]

\* an export whose first data row has a feed_date that is no date and an
\* action_date that is one, followed by a plain tweet
CsvBadDate ==
    Header \o
    << CsvRecord(Text(<<"x">>), Day2, <<"B", "o", "b">>, StatusUrl(<<"b", "o", "b">>, <<6, 1>>),
                 "Image", "http://img/x.jpg", "img/x.jpg", <<"h", "i">>),
       CsvRecord(Day1, Text(<<>>), <<"C", "a", "l">>, StatusUrl(<<"c", "a", "l">>, <<6, 2>>),
                 "", "", "", <<"y", "o">>) >>
ArchiveBadDate ==
    [is_zip |-> TRUE, csvs |-> <<CsvBadDate>>, entries |-> ("img/x.jpg" :> "image")]

\* an export whose tweet 63 has an action_date equal to its feed_date and
\* whose tweet 64 has an action_date that is no date
CsvSameDate ==
    Header \o
    << CsvRecord(Day1, Day1, <<"B", "o", "b">>, StatusUrl(<<"b", "o", "b">>, <<6, 3>>),
                 "", "", "", <<"h", "i">>),
       CsvRecord(Day1, Text(<<"x">>), <<"C", "a", "l">>, StatusUrl(<<"c", "a", "l">>, <<6, 4>>),
                 "", "", "", <<"y", "o">>) >>
ArchiveSameDate ==
    [is_zip |-> TRUE, csvs |-> <<CsvSameDate>>, entries |-> <<>>]

\* the directories of the runs that only scan
ReconcileDirs ==
    { "a.zip" :> ArchiveA,
      "a.zip" :> ArchiveA @@ "b.zip" :> ArchiveB,
      "a.zip" :> ArchiveBadDate @@ "b.zip" :> ArchiveB,
      "a.zip" :> ArchiveSameDate }

\* an export in two csv entries for the runs that list feeds: two tweets of
\* @Ace, one with a "%" in its text; a tweet of @Bea with a backslash in its
\* text, at the time of @Ace's second; a tweet of @Ace with an image,
\* retweeted at that time
CsvQuery1 ==
    Header \o
    << CsvRecord(Day1, Text(<<>>), <<"@", "A", "c", "e">>, StatusUrl(<<"a", "c", "e">>, <<5, 1>>),
                 "", "", "", <<"5", "0", "%">>),
       CsvRecord(Day2, Text(<<>>), <<"@", "A", "c", "e">>, StatusUrl(<<"a", "c", "e">>, <<5, 2>>),
                 "", "", "", <<"5", "0", "0">>) >>
CsvQuery2 ==
    Header \o
    << CsvRecord(Day2, Text(<<>>), <<"@", "B", "e", "a">>, StatusUrl(<<"b", "e", "a">>, <<5, 3>>),
                 "", "", "", <<"0", "\\", "9">>),
       CsvRecord(Day1, Day2, <<"@", "A", "c", "e">>, StatusUrl(<<"a", "c", "e">>, <<5, 4>>),
                 "Image", "http://img/q.jpg", "img/q.jpg", <<"o", "k">>) >>
ArchiveQuery ==
    [is_zip |-> TRUE, csvs |-> <<CsvQuery1, CsvQuery2>>, entries |-> <<>>]
QueryDirs == {"q.zip" :> ArchiveQuery}

\* the directories of the runs that serve media: data_dir names one of
\* them, and /a/set_data_dir makes it name another; in the last one there
\* is no a.zip
MediaDirs ==
    { "a.zip" :> ArchiveMedia,
      "a.zip" :> ArchiveUnreadable,
      <<>> }

(***************************************************************************)
(* State                                                                   *)
(***************************************************************************)
VARIABLES
    scanner_count,  \* AppState.scanner_count
    files,          \* table files
    feeds,          \* table feeds
    media,          \* table media
    clock,          \* strftime('%s','now')
    disk,           \* the data directory
    pc,             \* position of each trigger request / background loop
    kind,           \* "scan" or "thumb" for a request past its limit check
    file_name,      \* scan loop: the file_path it picked
    zip_index,      \* scan loop: the csv entry scan_file is at
    zip,            \* scan loop: the archive scan_file has open
    media_local,    \* thumbnail loop: the Media struct it picked
    clean_pc,       \* position of the clean request
    cleans,         \* clean requests that got past the busy test
    escape_call,    \* a call of escape_like_str: its input and what it gave
    committed       \* csv entries whose transaction committed since the
                    \* tables were last emptied (history, read by no action)

vars == <<escape_call, time_offset, scanner_count, files, feeds, media, clock, disk, pc, kind,
          file_name,
          zip_index, zip, media_local, clean_pc, cleans, committed>>

\* the trigger requests of the run
Jobs == DOMAIN pc

\* the positions at which a job's background thread exists and runs
LoopPcs == {"pick", "start", "open", "entries", "end", "generate", "release"}
\* the positions at which a job's work has ended
StoppedPcs == {"done", "panicked"}

\* strftime('%s','now') at a statement: the clock has stood still or moved on
Now == {clock} \cup (IF clock < MaxClock THEN {clock + 1} ELSE {})

\* the state serve() builds, for a run of n trigger requests on one of the
\* data directories dirs
InitWith(n, dirs, offsets) ==
    /\ escape_call = [input |-> <<>>, called |-> FALSE, output |-> None]
    /\ time_offset \in offsets
    /\ scanner_count = 0
    /\ files = <<>>
    /\ feeds = {}
    /\ media = <<>>
    /\ clock = 0
    /\ disk \in dirs
    /\ pc = [j \in 1..n |-> "idle"]
    /\ kind = [j \in 1..n |-> "none"]
    /\ file_name = [j \in 1..n |-> ""]
    /\ zip_index = [j \in 1..n |-> 0]
    /\ zip = [j \in 1..n |-> None]
    /\ media_local = [j \in 1..n |-> None]
    /\ clean_pc = "idle"
    /\ cleans = 0
    /\ committed = {}

Init == InitWith(MaxLoops, DataDirs, {DEFAULT_TIME_OFFSET_HOUR})
\* an empty data directory: every loop finds nothing to do
InitGovernor == InitWith(MaxJobs, {<<>>}, {DEFAULT_TIME_OFFSET_HOUR})


(***************************************************************************)
(* scan_service / generate_thumbnails_service: the trigger requests.       *)
(* Job numbers only name requests; the lowest free one is used.            *)
(***************************************************************************)
Free(j) == pc[j] \in {"idle", "rejected"}

\* the limit test of both services: scanner_count.read() >= limit answers
\* 429 TooManyRequests; the read guard is dropped at the end of the test
LimitReachedStrict(count) == count > scanner_count_limit
LimitReached(count) == count >= scanner_count_limit

\* (a variant that registers the archives before it tests the limit)
TriggerCheckRegistering(j, k) ==
    /\ Free(j)
    /\ \A i \in Jobs : i < j => ~Free(i)
    /\ files' = [f \in DOMAIN files \cup DOMAIN disk |->
                    IF f \in DOMAIN files THEN files[f] ELSE [scan_started_at |-> None,
                                                               scan_ended_at |-> None]]
    /\ IF LimitReached(scanner_count)
       THEN pc' = [pc EXCEPT ![j] = "rejected"] /\ UNCHANGED kind
       ELSE pc' = [pc EXCEPT ![j] = "checked"] /\ kind' = [kind EXCEPT ![j] = k]
    /\ UNCHANGED <<escape_call, time_offset, zip, scanner_count, feeds, media, clock, disk,
                   file_name,
                   zip_index, media_local, clean_pc, cleans, committed>>

TriggerCheck(j, k) ==
    /\ Free(j)
    /\ \A i \in Jobs : i < j => ~Free(i)
    /\ IF LimitReached(scanner_count)
       THEN pc' = [pc EXCEPT ![j] = "rejected"] /\ UNCHANGED kind
       ELSE pc' = [pc EXCEPT ![j] = "checked"] /\ kind' = [kind EXCEPT ![j] = k]
    /\ UNCHANGED <<escape_call, time_offset, zip, scanner_count, files, feeds, media, clock,
                   disk, file_name,
                   zip_index, media_local, clean_pc, cleans, committed>>

scan_service_check(j) == TriggerCheck(j, "scan")
generate_thumbnails_service_check(j) == TriggerCheck(j, "thumb")

\* a variant in which the handler starts its loop without counting it
TriggerIncrementSkipped(j) ==
    /\ pc[j] = "checked"
    /\ pc' = [pc EXCEPT ![j] = IF kind[j] = "scan" THEN "list" ELSE "pick"]
    /\ UNCHANGED <<escape_call, time_offset, zip, scanner_count, files, feeds, media, clock,
                   disk, kind,
                   file_name, zip_index, media_local, clean_pc, cleans, committed>>

\* *data.scanner_count.write().unwrap() += 1, a second lock acquisition.
\* generate_thumbnails_service then spawns its loop; scan_service goes on to
\* list_all_zip.
TriggerIncrement(j) ==
    /\ pc[j] = "checked"
    /\ scanner_count' = scanner_count + 1
    /\ pc' = [pc EXCEPT ![j] = IF kind[j] = "scan" THEN "list" ELSE "pick"]
    /\ UNCHANGED <<escape_call, time_offset, zip, files, feeds, media, clock, disk, kind,
                   file_name, zip_index,
                   media_local, clean_pc, cleans, committed>>

\* a variant that inserts with INSERT OR REPLACE: the row of a file that was
\* registered before is replaced by a fresh one
list_all_zip_replacing(j) ==
    /\ pc[j] = "list"
    /\ files' = [f \in DOMAIN files \cup DOMAIN disk |->
                    IF f \in DOMAIN disk THEN FileRow(None, None) ELSE files[f]]
    /\ pc' = [pc EXCEPT ![j] = "pick"]
    /\ UNCHANGED <<escape_call, time_offset, zip, scanner_count, feeds, media, clock, disk, kind,
                   file_name,
                   zip_index, media_local, clean_pc, cleans, committed>>

\* INSERT OR IGNORE INTO files (file_path) for every *.zip file of the data
\* directory, in one transaction; scan_files then spawns the loop
list_all_zip(j) ==
    /\ pc[j] = "list"
    /\ files' = [f \in DOMAIN files \cup DOMAIN disk |->
                    IF f \in DOMAIN files THEN files[f] ELSE FileRow(None, None)]
    /\ pc' = [pc EXCEPT ![j] = "pick"]
    /\ UNCHANGED <<escape_call, time_offset, zip, scanner_count, feeds, media, clock, disk, kind,
                   file_name,
                   zip_index, media_local, clean_pc, cleans, committed>>

(***************************************************************************)
(* scan_files: the background loop of a scan.                              *)
(***************************************************************************)
\* a variant that selects every archive whose scan has not ended
UnscannedOrUnfinished == {f \in DOMAIN files : files[f].scan_ended_at = None}

\* SELECT file_path FROM files WHERE scan_started_at IS NULL LIMIT 1
Unscanned == {f \in DOMAIN files : files[f].scan_started_at = None}

scan_files_pick(j) ==
    /\ pc[j] = "pick" /\ kind[j] = "scan"
    /\ IF Unscanned = {}
       THEN pc' = [pc EXCEPT ![j] = "release"] /\ UNCHANGED file_name
       ELSE \E f \in Unscanned :
               /\ file_name' = [file_name EXCEPT ![j] = f]
               /\ pc' = [pc EXCEPT ![j] = "start"]
    /\ UNCHANGED <<escape_call, time_offset, zip, scanner_count, files, feeds, media, clock,
                   disk, kind,
                   zip_index, media_local, clean_pc, cleans, committed>>

\* start_scan_stmt: UPDATE files SET scan_started_at = now WHERE file_path = $1
scan_files_start(j) ==
    /\ pc[j] = "start"
    /\ \E now \in Now :
          /\ clock' = now
          /\ files' = IF file_name[j] \in DOMAIN files
                      THEN [files EXCEPT ![file_name[j]].scan_started_at = Some(now)]
                      ELSE files
    /\ pc' = [pc EXCEPT ![j] = "open"]
    /\ UNCHANGED <<escape_call, time_offset, zip, scanner_count, feeds, media, disk, kind,
                   file_name, zip_index,
                   media_local, clean_pc, cleans, committed>>

\* scan_file up to its loop: File::open(zip_path).unwrap() and
\* ZipArchive::new(zip_file).unwrap() panic, and the thread is gone
CanOpenZip(f) == f \in DOMAIN disk /\ disk[f].is_zip

scan_file_open(j) ==
    /\ pc[j] = "open"
    /\ IF ~CanOpenZip(file_name[j])
       THEN pc' = [pc EXCEPT ![j] = "panicked"] /\ UNCHANGED <<zip_index, zip>>
       ELSE IF disk[file_name[j]].csvs = <<>>
       THEN pc' = [pc EXCEPT ![j] = "end"] /\ UNCHANGED <<zip_index, zip>>
       ELSE /\ pc' = [pc EXCEPT ![j] = "entries"]
            /\ zip_index' = [zip_index EXCEPT ![j] = 1]
            /\ zip' = [zip EXCEPT ![j] = Some(disk[file_name[j]])]
    /\ UNCHANGED <<escape_call, time_offset, scanner_count, files, feeds, media, clock, disk, kind,
                   file_name, media_local, clean_pc, cleans, committed>>

\* one turn of the loop of scan_file on a csv entry: a transaction around
\* process_csv, committed at its end; a panic inside unwinds the thread and
\* the transaction is rolled back when it is dropped
scan_file_entry(j) ==
    /\ pc[j] = "entries"
    /\ LET f == file_name[j]
           csvs == Unwrap(zip[j]).csvs
           db == process_csv([feeds |-> feeds, media |-> media, panicked |-> FALSE],
                             csvs[zip_index[j]], f)
       IN IF db.panicked
          THEN /\ pc' = [pc EXCEPT ![j] = "panicked"]
               /\ UNCHANGED <<feeds, media, zip_index, zip, committed>>
          ELSE /\ feeds' = db.feeds
               /\ media' = db.media
               /\ committed' = committed \cup {<<f, zip_index[j]>>}
               /\ IF zip_index[j] < Len(csvs)
                  THEN /\ zip_index' = [zip_index EXCEPT ![j] = zip_index[j] + 1]
                       /\ UNCHANGED <<pc, zip>>
                  ELSE /\ zip_index' = [zip_index EXCEPT ![j] = 0]
                       /\ zip' = [zip EXCEPT ![j] = None]
                       /\ pc' = [pc EXCEPT ![j] = "end"]
    /\ UNCHANGED <<escape_call, time_offset, scanner_count, files, clock, disk, kind, file_name,
                   media_local, clean_pc, cleans>>

\* the same turn when one insert statement of one data row returns Err
\* (the database is locked by another writer past the busy timeout, the
\* disk is full): the error is printed, the following statements run and
\* the transaction is committed
scan_file_entry_storage_error(j) ==
    /\ pc[j] = "entries"
    /\ LET f == file_name[j]
           csvs == Unwrap(zip[j]).csvs
           csv == csvs[zip_index[j]]
           db0 == [feeds |-> feeds, media |-> media, panicked |-> FALSE]
       IN \E n \in 7..Len(csv), stmt \in {"feed", "retweet", "media"} :
             LET db == process_csv_from_stmt(db0, csv, 0, <<>>, f, n :> {stmt})
             IN /\ db # process_csv(db0, csv, f)
                /\ IF db.panicked
                   THEN /\ pc' = [pc EXCEPT ![j] = "panicked"]
                        /\ UNCHANGED <<feeds, media, zip_index, zip, committed>>
                   ELSE /\ feeds' = db.feeds
                        /\ media' = db.media
                        /\ committed' = committed \cup {<<f, zip_index[j]>>}
                        /\ IF zip_index[j] < Len(csvs)
                           THEN /\ zip_index' = [zip_index EXCEPT ![j] = zip_index[j] + 1]
                                /\ UNCHANGED <<pc, zip>>
                           ELSE /\ zip_index' = [zip_index EXCEPT ![j] = 0]
                                /\ zip' = [zip EXCEPT ![j] = None]
                                /\ pc' = [pc EXCEPT ![j] = "end"]
    /\ UNCHANGED <<escape_call, time_offset, scanner_count, files, clock, disk, kind, file_name,
                   media_local, clean_pc, cleans>>

\* end_scan_stmt: UPDATE files SET scan_ended_at = now WHERE file_path = $1
scan_files_end(j) ==
    /\ pc[j] = "end"
    /\ \E now \in Now :
          /\ clock' = now
          /\ files' = IF file_name[j] \in DOMAIN files
                      THEN [files EXCEPT ![file_name[j]].scan_ended_at = Some(now)]
                      ELSE files
    /\ pc' = [pc EXCEPT ![j] = "pick"]
    /\ file_name' = [file_name EXCEPT ![j] = ""]
    /\ UNCHANGED <<escape_call, time_offset, zip, scanner_count, feeds, media, disk, kind,
                   zip_index,
                   media_local, clean_pc, cleans, committed>>

\* the None arm of both loops: *data.scanner_count.write().unwrap() -= 1; break
loop_release(j) ==
    /\ pc[j] = "release"
    /\ scanner_count' = scanner_count - 1
    /\ pc' = [pc EXCEPT ![j] = "done"]
    /\ UNCHANGED <<escape_call, time_offset, zip, files, feeds, media, clock, disk, kind,
                   file_name, zip_index,
                   media_local, clean_pc, cleans, committed>>


(***************************************************************************)
(* generate_thumbnails: the background loop of a thumbnail generation.     *)
(***************************************************************************)
\* pick_media_stmt: media_type = 'Image' AND deleted_at IS NULL AND
\* thumbnail IS NULL LIMIT 1
PendingMediaDeletedToo ==
    {i \in DOMAIN media : media[i].media_type = "Image" /\ media[i].thumbnail = None}

PendingMedia ==
    {i \in DOMAIN media : /\ media[i].media_type = "Image"
                          /\ media[i].deleted_at = None
                          /\ media[i].thumbnail = None}

generate_thumbnails_pick(j) ==
    /\ pc[j] = "pick" /\ kind[j] = "thumb"
    /\ IF PendingMedia = {}
       THEN pc' = [pc EXCEPT ![j] = "release"] /\ UNCHANGED media_local
       ELSE \E i \in PendingMedia :
               /\ media_local' = [media_local EXCEPT ![j] = Some(media[i])]
               /\ pc' = [pc EXCEPT ![j] = "generate"]
    /\ UNCHANGED <<escape_call, time_offset, zip, scanner_count, files, feeds, media, clock,
                   disk, kind,
                   file_name, zip_index, clean_pc, cleans, committed>>

\* (a variant whose WHERE clause matches no row)
update_media_thumbnail_no_row(ms, m) == ms

\* UPDATE media SET thumbnail = :thumbnail WHERE feed_id = .. AND media_id = ..
update_media_thumbnail(ms, m) ==
    [i \in DOMAIN ms |->
        IF ms[i].feed_id = m.feed_id /\ ms[i].media_id = m.media_id
        THEN [ms[i] EXCEPT !.thumbnail = m.thumbnail] ELSE ms[i]]

\* UPDATE media SET deleted_at = now WHERE feed_id = .. AND media_id = ..
soft_delete_media_thumbnail(ms, m, now) ==
    [i \in DOMAIN ms |->
        IF ms[i].feed_id = m.feed_id /\ ms[i].media_id = m.media_id
        THEN [ms[i] EXCEPT !.deleted_at = Some(now)] ELSE ms[i]]

\* what the code finds at the in-archive path `path` of the archive
\* zip_path of the data directory.  "absent" stands for every case in which
\* it goes on without an entry: zip_path.is_file() is false, ZipArchive::new
\* fails, zip.by_name(path) fails (no such entry, or one it cannot open such
\* as an encrypted one), or the entry is not a file.  Otherwise the entry is
\* read with read_to_end(..).unwrap(), which panics on "corrupt" content (a
\* broken deflate stream, a checksum that does not match).
ArchiveEntry(zip_path, path) ==
    IF ~CanOpenZip(zip_path) THEN "absent"
    ELSE IF path \notin DOMAIN disk[zip_path].entries THEN "absent"
    ELSE IF disk[zip_path].entries[path] \in {"dir", "encrypted"} THEN "absent"
    ELSE disk[zip_path].entries[path]

\* (a variant that looks the entry up by media_url instead of media_path)
ZipEntryByUrl(m) == ArchiveEntry(m.file_path, m.media_url)

\* generate_thumbnail: the entry media.media_path of the archive
\* media.file_path
ZipEntry(m) == ArchiveEntry(m.file_path, m.media_path)

\* generate_thumbnail_blob: img_reader.decode().unwrap() panics on bytes
\* that are no image; a failed write_to is returned as Err
generate_thumbnail_blob(entry) ==
    CASE entry = "undecodable" -> "panic"
      [] entry = "unencodable" -> "err"
      [] OTHER -> "ok"

generate_thumbnail(j) ==
    /\ pc[j] = "generate"
    /\ LET m == Unwrap(media_local[j])
           entry == ZipEntry(m)
           blob == generate_thumbnail_blob(entry)
       IN IF entry = "absent"
          THEN /\ \E now \in Now :
                     /\ clock' = now
                     /\ media' = soft_delete_media_thumbnail(media, m, now)
               /\ pc' = [pc EXCEPT ![j] = "pick"]
               /\ media_local' = [media_local EXCEPT ![j] = None]
          ELSE IF entry = "corrupt" \/ blob = "panic"
          THEN /\ pc' = [pc EXCEPT ![j] = "panicked"]
               /\ UNCHANGED <<media, clock, media_local>>
          ELSE /\ media' = update_media_thumbnail(media,
                              IF blob = "ok" THEN [m EXCEPT !.thumbnail = Some("jpeg")]
                              ELSE m)
               /\ pc' = [pc EXCEPT ![j] = "pick"]
               /\ media_local' = [media_local EXCEPT ![j] = None]
               /\ UNCHANGED clock
    /\ UNCHANGED <<escape_call, time_offset, zip, scanner_count, files, feeds, disk, kind,
                   file_name, zip_index,
                   clean_pc, cleans, committed>>

(***************************************************************************)
(* clean_service                                                           *)
(***************************************************************************)
\* a loop holds a pooled connection from get_conn at the top of a turn until
\* the turn ends; pool.state().connections != idle_connections sees it
HoldsConnection(j) == pc[j] \in {"start", "open", "entries", "end", "generate", "release"}

\* the busy test of clean_service, answered 503 ServiceUnavailable
clean_service_check ==
    /\ clean_pc = "idle"
    /\ cleans < MaxCleans
    /\ IF scanner_count > 0 \/ (\E j \in Jobs : HoldsConnection(j))
       THEN UNCHANGED <<clean_pc, cleans>>
       ELSE clean_pc' = "delete_media" /\ cleans' = cleans + 1
    /\ UNCHANGED <<escape_call, time_offset, zip, scanner_count, files, feeds, media, clock,
                   disk, pc, kind,
                   file_name, zip_index, media_local, committed>>

\* DELETE FROM media; DELETE FROM feeds; DELETE FROM files; VACUUM: four
\* autocommitted statements
clean_service_delete_media ==
    /\ clean_pc = "delete_media"
    /\ media' = <<>>
    /\ committed' = {}
    /\ clean_pc' = "delete_feeds"
    /\ UNCHANGED <<escape_call, time_offset, zip, scanner_count, files, feeds, clock, disk, pc,
                   kind, file_name,
                   zip_index, media_local, cleans>>

clean_service_delete_feeds ==
    /\ clean_pc = "delete_feeds"
    /\ feeds' = {}
    /\ committed' = {}
    /\ clean_pc' = "delete_files"
    /\ UNCHANGED <<escape_call, time_offset, zip, scanner_count, files, media, clock, disk, pc,
                   kind, file_name,
                   zip_index, media_local, cleans>>

clean_service_delete_files ==
    /\ clean_pc = "delete_files"
    /\ files' = <<>>
    /\ clean_pc' = "idle"
    /\ UNCHANGED <<escape_call, time_offset, zip, scanner_count, feeds, media, clock, disk, pc,
                   kind, file_name,
                   zip_index, media_local, cleans, committed>>

(***************************************************************************)
(* set_data_dir_service: data_dir names another directory from now on.     *)
(* disk is the content of the directory data_dir names.                    *)
(***************************************************************************)
set_data_dir_service ==
    /\ \E dir \in MediaDirs : disk' = dir
    /\ UNCHANGED <<escape_call, time_offset, zip, scanner_count, files, feeds, media, clock, pc,
                   kind,
                   file_name, zip_index, media_local, clean_pc, cleans, committed>>

(***************************************************************************)
(* media_file_service and media_preview_service.  A path parameter is the  *)
(* sequence of its characters.  A response is [status |-> "200", body, ..],*)
(* [status |-> "404"], or [status |-> "panic"] when the handler panics.    *)
(***************************************************************************)
DigitChars == {"0", "1", "2", "3", "4", "5", "6", "7", "8", "9"}
DigitValue(c) ==
    CASE c = "0" -> 0 [] c = "1" -> 1 [] c = "2" -> 2 [] c = "3" -> 3 [] c = "4" -> 4
      [] c = "5" -> 5 [] c = "6" -> 6 [] c = "7" -> 7 [] c = "8" -> 8 [] OTHER -> 9

\* param.parse::<i64>() on the parameters the model uses (no sign, no
\* overflow): Some(n) for a non-empty run of digits
ParsePathParam(param) ==
    IF param # <<>> /\ \A i \in DOMAIN param : param[i] \in DigitChars
    THEN Some(ParseI64([i \in DOMAIN param |-> DigitValue(param[i])]))
    ELSE None

\* the path parameters of the requests of a run
PathParams == { <<"4", "2">>, <<"4", "5">>, <<"4", "6">>, <<"1">>, <<"2">>, <<"x">> }

NotFound == [status |-> "404"]
Panicked == [status |-> "panic"]

\* SELECT .. FROM media WHERE feed_id = :feed_id AND media_id = :media_id
\* LIMIT 1: the rows found (at most one, by the key)
get_media(ms, feed_id, media_id) ==
    {i \in DOMAIN ms : ms[i].feed_id = feed_id /\ ms[i].media_id = media_id}

\* extract_zip_file: None, Some(content), or a panic in read_to_end
extract_zip_file(zip_path, file_path) ==
    LET entry == ArchiveEntry(zip_path, file_path)
    IN CASE entry = "absent" -> None
         [] entry = "corrupt" -> Some("panic")
         [] OTHER -> Some(entry)

media_file_service(ms, param_feed_id, param_media_id) ==
    LET feed_id == ParsePathParam(param_feed_id)
        media_id == ParsePathParam(param_media_id)
    IN IF feed_id = None \/ media_id = None THEN NotFound
       ELSE LET found == get_media(ms, Unwrap(feed_id), Unwrap(media_id))
            IN IF found = {} THEN NotFound
               ELSE LET m == ms[CHOOSE i \in found : TRUE]
                        file == extract_zip_file(m.file_path, m.media_path)
                    IN CASE file = None -> NotFound
                         [] file = Some("panic") -> Panicked
                         [] OTHER -> [status |-> "200", body |-> <<m.file_path, m.media_path>>]

\* media_preview_service: the response and the media table it leaves.
\* generated tells that generate_thumbnail_blob ran for the response.
media_preview_service(ms, param_feed_id, param_media_id) ==
    LET feed_id == ParsePathParam(param_feed_id)
        media_id == ParsePathParam(param_media_id)
        Answer(response, table) == [response |-> response, media |-> table]
    IN IF feed_id = None \/ media_id = None THEN Answer(NotFound, ms)
       ELSE LET found == get_media(ms, Unwrap(feed_id), Unwrap(media_id))
            IN IF found = {} THEN Answer(NotFound, ms)
               ELSE LET m == ms[CHOOSE i \in found : TRUE]
                        file == extract_zip_file(m.file_path, m.media_path)
                        blob == generate_thumbnail_blob(Unwrap(file))
                    IN IF ~(m.media_type = "Image" /\ m.deleted_at = None)
                       THEN Answer(NotFound, ms)
                       ELSE IF m.thumbnail # None
                       THEN Answer([status |-> "200", body |-> Unwrap(m.thumbnail),
                                    generated |-> FALSE], ms)
                       ELSE IF file = None THEN Answer(NotFound, ms)
                       ELSE IF file = Some("panic") \/ blob = "panic"
                       THEN Answer(Panicked, ms)
                       ELSE IF blob = "err"
                       \* NULL is written again, then media.thumbnail.unwrap()
                       THEN Answer(Panicked, update_media_thumbnail(ms, m))
                       ELSE Answer([status |-> "200", body |-> "jpeg", generated |-> TRUE],
                                   update_media_thumbnail(ms,
                                       [m EXCEPT !.thumbnail = Some("jpeg")]))

\* a GET /a/media/preview/{feed_id}/{media_id} request
media_preview_request ==
    /\ \E param_feed_id, param_media_id \in PathParams :
          media' = media_preview_service(media, param_feed_id, param_media_id).media
    /\ UNCHANGED <<escape_call, time_offset, zip, scanner_count, files, feeds, clock, disk, pc,
                   kind,
                   file_name, zip_index, media_local, clean_pc, cleans, committed>>

(***************************************************************************)
(* feeds_service.  A FeedsQuery is [user_name, keyword, has_media_only,    *)
(* page, count], each an Option; since and until are read by no code.  The *)
(* handler reads the tables and writes nothing.                            *)
(***************************************************************************)
FeedsQuery(user_name, keyword, has_media_only, page, count) ==
    [user_name |-> user_name, keyword |-> keyword, has_media_only |-> has_media_only,
     page |-> page, count |-> count]

\* the number of bytes of a character in UTF-8; "U+00E9" stands for the one
\* character e-acute
ByteLen(c) == IF c = "U+00E9" THEN 2 ELSE 1

\* the byte offset at which character number n + 1 of s starts
RECURSIVE ByteOffset(_, _)
ByteOffset(s, n) == IF n = 0 THEN 0 ELSE ByteOffset(s, n - 1) + ByteLen(s[n])

escape_like_char(ch) == IF ch = "%" THEN Some(<<"\\", "%">>) ELSE None

\* the inner loop of escape_like_str over the characters of rest
RECURSIVE EscapeChars(_)
EscapeChars(rest) ==
    IF rest = <<>> THEN <<>>
    ELSE (IF escape_like_char(Head(rest)) # None
          THEN Unwrap(escape_like_char(Head(rest)))
          ELSE <<Head(rest)>>) \o EscapeChars(Tail(rest))

\* escape_like_str: Some(text), or None when it panics.  i is the index
\* chars().enumerate() gives the first character to escape; &input[..i] and
\* &input[i..] take i as a byte offset and panic when it is no character
\* boundary.
escape_like_str(input) ==
    LET special == {k \in DOMAIN input : escape_like_char(input[k]) # None}
    IN IF special = {} THEN Some(input)
       ELSE LET i == (CHOOSE k \in special : \A l \in special : k <= l) - 1
                cut == {n \in 0..Len(input) : ByteOffset(input, n) = i}
            IN IF cut = {} THEN None
               ELSE LET n == CHOOSE n \in cut : TRUE
                    IN Some(SubSeq(input, 1, n) \o EscapeChars(SubSeq(input, n + 1, Len(input))))

\* SQLite's LIKE without an ESCAPE clause: "%" matches any run of
\* characters, "_" any one character, every other character (a backslash
\* too) itself, ASCII letters without regard to case
RECURSIVE Like(_, _)
Like(text, pattern) ==
    IF pattern = <<>> THEN text = <<>>
    ELSE IF Head(pattern) = "%"
    THEN Like(text, Tail(pattern)) \/ (text # <<>> /\ Like(Tail(text), pattern))
    ELSE IF text = <<>> THEN FALSE
    ELSE /\ Head(pattern) = "_" \/ LowerChar(Head(pattern)) = LowerChar(Head(text))
         /\ Like(Tail(text), Tail(pattern))

fix_user_name_as_given(value) ==
    IF value = None THEN None
    ELSE IF Unwrap(value) = <<>> THEN None
    ELSE value

fix_user_name(value) ==
    IF value = None THEN None
    ELSE IF Unwrap(value) = <<>> THEN None
    ELSE IF Head(Unwrap(value)) = "@" THEN value
    ELSE Some(<<"@">> \o Unwrap(value))

\* get_feeds_query: the WHERE clauses the statement has
get_feeds_query(query) ==
    [user_name |-> query.user_name # None /\ Unwrap(query.user_name) # <<>>,
     keyword |-> query.keyword # None /\ Unwrap(query.keyword) # <<>>,
     has_media_only |-> query.has_media_only # None /\ Unwrap(query.has_media_only)]

\* ORDER BY f.feed_at DESC: the orders the engine may produce the rows in
\* (rows of equal feed_at in any order)
RECURSIVE OrderByFeedAtDesc(_)
OrderByFeedAtDesc(rows) ==
    IF rows = {} THEN {<<>>}
    ELSE UNION {{<<first>> \o rest : rest \in OrderByFeedAtDesc(rows \ {first})} :
                   first \in {r \in rows : \A q \in rows : r.feed_at >= q.feed_at}}

\* LIMIT :limit OFFSET :offset (SQLite: a negative limit is no limit, a
\* negative offset is 0)
LimitOffset(order, limit, offset) ==
    LET from == IF offset < 0 THEN 0 ELSE offset
        upto == IF limit < 0 \/ from + limit > Len(order) THEN Len(order) ELSE from + limit
    IN SubSeq(order, from + 1, upto)

\* feeds_service: [panicked, feeds, query]; feeds is the set of row
\* sequences the statement may return (each returned row becomes one
\* FeedType of the response, in that order), query the FeedsQuery of the
\* response
feeds_service(fs, ms, web_query) ==
    LET query == [web_query EXCEPT
                     !.user_name = fix_user_name(web_query.user_name),
                     !.page = Some(IF web_query.page = None THEN DEFAULT_PAGE
                                   ELSE Unwrap(web_query.page)),
                     !.count = Some(IF web_query.count = None THEN DEFAULT_PAGE_COUNT
                                    ELSE Unwrap(web_query.count))]
        where == get_feeds_query(query)
        page == Unwrap(query.page)
        count == Unwrap(query.count)
        escaped == escape_like_str(Unwrap(query.keyword))
        feeds_param_keyword == <<"%">> \o Unwrap(escaped) \o <<"%">>
        rows == {f \in fs :
                    /\ where.user_name => Like(f.user_name, Unwrap(query.user_name))
                    /\ where.keyword =>
                          f.contents # None /\ Like(Unwrap(f.contents), feeds_param_keyword)
                    /\ where.has_media_only =>
                          \E i \in DOMAIN ms : ms[i].feed_id = f.feed_id}
    IN IF where.keyword /\ escaped = None
       THEN [panicked |-> TRUE, feeds |-> {}, query |-> query]
       ELSE [panicked |-> FALSE,
             feeds |-> {LimitOffset(order, count, page * count) :
                           order \in OrderByFeedAtDesc(rows)},
             query |-> query]

\* get_feed_media: every Media row of the feed in rowid order, whatever its
\* deleted_at; None when there is none
get_feed_media(ms, media_feed_id) ==
    LET l == SelectSeq(ms, LAMBDA m : m.feed_id = media_feed_id)
    IN IF l = <<>> THEN None ELSE Some(l)

\* FeedType::Feed of a row of feeds, its media filled in
FeedTypeFeed(ms, f) ==
    [type |-> "Feed", feed_id |-> f.feed_id, feed_at |-> f.feed_at,
     user_name |-> f.user_name, twitter_url |-> f.twitter_url,
     contents |-> f.contents, media |-> get_feed_media(ms, f.feed_id)]

\* (a variant that never embeds the original)
FeedTypeOfFlat(fs, ms, f) ==
    IF f.retweet_id = 0 THEN FeedTypeFeed(ms, f)
    ELSE [type |-> "Retweet", retweet_at |-> f.feed_at, user_name |-> f.user_name,
          retweet_id |-> f.retweet_id, retweet_user_name |-> f.retweet_user_name,
          retweet |-> None]

\* the FeedType the closure of query_map and the fill-in loop make of a row
\* f of the statement: the columns of r are those of the row joined by
\* LEFT JOIN feeds r ON f.retweet_id = r.feed_id AND f.retweet_id != 0
FeedTypeOf(fs, ms, f) ==
    LET joined == {r \in fs : f.retweet_id = r.feed_id /\ f.retweet_id # 0}
    IN IF f.retweet_id = 0 THEN FeedTypeFeed(ms, f)
       ELSE [type |-> "Retweet", retweet_at |-> f.feed_at, user_name |-> f.user_name,
             retweet_id |-> f.retweet_id, retweet_user_name |-> f.retweet_user_name,
             retweet |-> IF joined = {} THEN None
                         ELSE Some(FeedTypeFeed(ms, CHOOSE r \in joined : TRUE))]

\* the feeds of the FeedsResponse: the sequences feeds_service may answer
FeedsResponseFeeds(fs, ms, web_query) ==
    {[k \in DOMAIN rows |-> FeedTypeOf(fs, ms, rows[k])] :
        rows \in feeds_service(fs, ms, web_query).feeds}

(***************************************************************************)
(* Specification                                                           *)
(***************************************************************************)
Next ==
    \/ \E j \in Jobs : scan_service_check(j)
    \/ \E j \in Jobs : generate_thumbnails_service_check(j)
    \/ \E j \in Jobs : TriggerIncrement(j)
    \/ \E j \in Jobs : list_all_zip(j)
    \/ \E j \in Jobs : scan_files_pick(j)
    \/ \E j \in Jobs : scan_files_start(j)
    \/ \E j \in Jobs : scan_file_open(j)
    \/ \E j \in Jobs : scan_file_entry(j)
    \/ \E j \in Jobs : scan_files_end(j)
    \/ \E j \in Jobs : generate_thumbnails_pick(j)
    \/ \E j \in Jobs : generate_thumbnail(j)
    \/ \E j \in Jobs : loop_release(j)
    \/ clean_service_check
    \/ clean_service_delete_media
    \/ clean_service_delete_feeds
    \/ clean_service_delete_files

\* two concurrent requests, every kind of archive
Spec == Init /\ [][Next]_vars
\* The Governor under MaxJobs concurrent requests.  The data directory is
\* empty, so the actions left out of NextGovernor are never enabled.
NextGovernor ==
    \/ \E j \in Jobs : scan_service_check(j)
    \/ \E j \in Jobs : generate_thumbnails_service_check(j)
    \/ \E j \in Jobs : TriggerIncrement(j)
    \/ \E j \in Jobs : list_all_zip(j)
    \/ \E j \in Jobs : scan_files_pick(j)
    \/ \E j \in Jobs : generate_thumbnails_pick(j)
    \/ \E j \in Jobs : loop_release(j)
    \/ clean_service_check
    \/ clean_service_delete_media
    \/ clean_service_delete_feeds
    \/ clean_service_delete_files

SpecGovernor == InitGovernor /\ [][NextGovernor]_vars

\* The Governor under MaxJobs concurrent requests on a data directory whose
\* one archive cannot be opened: a scan loop that picks it is lost with its
\* slot, so that requests find the counter at the limit with the archive
\* registered.
InitBusy == InitWith(MaxJobs, {"a.zip" :> ArchiveCorrupt}, {DEFAULT_TIME_OFFSET_HOUR})

NextBusy ==
    \/ NextGovernor
    \/ \E j \in Jobs : scan_files_start(j)
    \/ \E j \in Jobs : scan_file_open(j)

SpecBusy == InitBusy /\ [][NextBusy]_vars

\* Scans and thumbnail generations while media are requested and data_dir is
\* changed.
InitMedia == InitWith(MaxLoops, MediaDirs, {DEFAULT_TIME_OFFSET_HOUR})

NextMedia ==
    \/ Next
    \/ set_data_dir_service
    \/ media_preview_request

SpecMedia == InitMedia /\ [][NextMedia]_vars

\* Previews requested while archives are scanned and data_dir is changed.
InitPreview == InitWith(MaxScans, MediaDirs, {DEFAULT_TIME_OFFSET_HOUR})

NextPreview ==
    \/ \E j \in Jobs : scan_service_check(j)
    \/ \E j \in Jobs : TriggerIncrement(j)
    \/ \E j \in Jobs : list_all_zip(j)
    \/ \E j \in Jobs : scan_files_pick(j)
    \/ \E j \in Jobs : scan_files_start(j)
    \/ \E j \in Jobs : scan_file_open(j)
    \/ \E j \in Jobs : scan_file_entry(j)
    \/ \E j \in Jobs : scan_files_end(j)
    \/ \E j \in Jobs : loop_release(j)
    \/ set_data_dir_service
    \/ media_preview_request

SpecPreview == InitPreview /\ [][NextPreview]_vars

\* Scans of one readable archive under every time_offset serve() accepts.
\* runs that list feeds: scan jobs and /a/clean over the export of QueryDirs
InitQuery == InitWith(MaxScans, QueryDirs, {DEFAULT_TIME_OFFSET_HOUR})

NextQuery ==
    \/ \E j \in Jobs : scan_service_check(j)
    \/ \E j \in Jobs : TriggerIncrement(j)
    \/ \E j \in Jobs : list_all_zip(j)
    \/ \E j \in Jobs : scan_files_pick(j)
    \/ \E j \in Jobs : scan_files_start(j)
    \/ \E j \in Jobs : scan_file_open(j)
    \/ \E j \in Jobs : scan_file_entry(j)
    \/ \E j \in Jobs : scan_files_end(j)
    \/ \E j \in Jobs : loop_release(j)
    \/ clean_service_check
    \/ clean_service_delete_media
    \/ clean_service_delete_feeds
    \/ clean_service_delete_files

SpecQuery == InitQuery /\ [][NextQuery]_vars

\* runs of thumbnail loops alone: the store is the one a finished scan of
\* a.zip leaves, and MaxLoops triggers of /a/generate_thumbnails follow
ThumbDirs == {"a.zip" :> ArchiveA, "a.zip" :> ArchiveMedia}

InitThumbs ==
    /\ escape_call = [input |-> <<>>, called |-> FALSE, output |-> None]
    /\ time_offset = DEFAULT_TIME_OFFSET_HOUR
    /\ scanner_count = 0
    /\ clock = 0
    /\ disk \in ThumbDirs
    /\ files = [f \in DOMAIN disk |-> FileRow(Some(0), Some(0))]
    /\ LET db == process_csv([feeds |-> {}, media |-> <<>>, panicked |-> FALSE],
                             disk["a.zip"].csvs[1], "a.zip")
       IN feeds = db.feeds /\ media = db.media
    /\ pc = [j \in 1..MaxLoops |-> "idle"]
    /\ kind = [j \in 1..MaxLoops |-> "none"]
    /\ file_name = [j \in 1..MaxLoops |-> ""]
    /\ zip_index = [j \in 1..MaxLoops |-> 0]
    /\ zip = [j \in 1..MaxLoops |-> None]
    /\ media_local = [j \in 1..MaxLoops |-> None]
    /\ clean_pc = "idle"
    /\ cleans = 0
    /\ committed = {<<"a.zip", 1>>}

NextThumbs ==
    \/ \E j \in Jobs : generate_thumbnails_service_check(j)
    \/ \E j \in Jobs : TriggerIncrement(j)
    \/ \E j \in Jobs : generate_thumbnails_pick(j)
    \/ \E j \in Jobs : generate_thumbnail(j)
    \/ \E j \in Jobs : loop_release(j)

SpecThumbs == InitThumbs /\ [][NextThumbs]_vars

\* runs in which rows get soft-deleted: thumbnail loops, preview requests,
\* /a/set_data_dir and /a/clean over the store of InitThumbs
NextSoftDelete ==
    \/ \E j \in Jobs : generate_thumbnails_service_check(j)
    \/ \E j \in Jobs : TriggerIncrement(j)
    \/ \E j \in Jobs : generate_thumbnails_pick(j)
    \/ \E j \in Jobs : generate_thumbnail(j)
    \/ \E j \in Jobs : loop_release(j)
    \/ set_data_dir_service
    \/ media_preview_request
    \/ clean_service_check
    \/ clean_service_delete_media
    \/ clean_service_delete_feeds
    \/ clean_service_delete_files

SpecSoftDelete == InitThumbs /\ [][NextSoftDelete]_vars

\* runs of scan jobs alone over the exports of ReconcileDirs
InitReconcile == InitWith(MaxLoops, ReconcileDirs, {DEFAULT_TIME_OFFSET_HOUR})

NextReconcile ==
    \/ \E j \in Jobs : scan_service_check(j)
    \/ \E j \in Jobs : TriggerIncrement(j)
    \/ \E j \in Jobs : list_all_zip(j)
    \/ \E j \in Jobs : scan_files_pick(j)
    \/ \E j \in Jobs : scan_files_start(j)
    \/ \E j \in Jobs : scan_file_open(j)
    \/ \E j \in Jobs : scan_file_entry(j)
    \/ \E j \in Jobs : scan_files_end(j)
    \/ \E j \in Jobs : loop_release(j)

SpecReconcile == InitReconcile /\ [][NextReconcile]_vars

InitStartup == InitWith(MaxScans, {"b.zip" :> ArchiveB}, AcceptedTimeOffsets)

NextStartup ==
    \/ \E j \in Jobs : scan_service_check(j)
    \/ \E j \in Jobs : TriggerIncrement(j)
    \/ \E j \in Jobs : list_all_zip(j)
    \/ \E j \in Jobs : scan_files_pick(j)
    \/ \E j \in Jobs : scan_files_start(j)
    \/ \E j \in Jobs : scan_file_open(j)
    \/ \E j \in Jobs : scan_file_entry(j)
    \/ \E j \in Jobs : scan_files_end(j)
    \/ \E j \in Jobs : loop_release(j)

SpecStartup == InitStartup /\ [][NextStartup]_vars

TypeOK ==
    /\ scanner_count \in Int
    /\ clock \in 0..MaxClock
    /\ \A j \in Jobs : pc[j] \in {"idle", "rejected", "checked", "list"} \cup LoopPcs \cup StoppedPcs


(***************************************************************************)
(* Properties                                                              *)
(***************************************************************************)
\* a job that passed the limit test and has not (or not yet) given its
\* slot back
HoldsSlot(j) == pc[j] \in ({"list", "panicked"} \cup LoopPcs)
ActiveLoops == Cardinality({j \in Jobs : HoldsSlot(j)})
\* no request is in flight and no loop runs
NoJobRunning == \A j \in Jobs : pc[j] \in {"idle", "rejected", "done", "panicked"}
IsSet(column) == column # None

\* C1: under every interleaving of scan and thumbnail triggers and of loop
\* completions the Governor counter never exceeds scanner_count_limit.
C1_CounterWithinLimit == scanner_count <= scanner_count_limit

\* C2: every accepted trigger gives its slot back exactly once when its work
\* ends, also when the work fails (an archive that cannot be opened): once
\* no request is in flight and no loop runs, the counter is back at the
\* value it had before the triggers.
C2_SlotReleasedWhenWorkEnds == NoJobRunning => scanner_count = 0

\* C3: consecutive triggers (none overlapping another trigger between its
\* limit test and its increment) are accepted exactly while fewer than
\* scanner_count_limit accepted triggers have not completed: the first L are
\* accepted, further ones are rejected, and each completion lets exactly one
\* more in.
C3_ConsecutiveTriggers ==
    [][\A j \in Jobs :
          (/\ Free(j)
           /\ pc'[j] # pc[j]
           /\ ~(\E i \in Jobs : pc[i] = "checked"))
          => (pc'[j] = "checked" <=> ActiveLoops < scanner_count_limit)]_vars

\* two triggers were accepted, a third was rejected, then a loop completed
C3_Witness ==
    /\ \E j \in Jobs : pc[j] = "rejected"
    /\ \E j \in Jobs : pc[j] = "done"
    /\ scanner_count = scanner_count_limit - 1
    /\ ActiveLoops = scanner_count_limit - 1

\* C4: clean never deletes the files/feeds/media rows while a scan or
\* thumbnail loop is running: no loop can start between the busy test of
\* clean and its deletes.
C4_CleanNeverDeletesUnderLoop ==
    clean_pc \in {"delete_media", "delete_feeds", "delete_files"}
        => \A j \in Jobs : pc[j] \notin LoopPcs

\* C5: after an accepted scan trigger every registered archive is scanned
\* (both markers set) and the loop then stops and releases its slot: once
\* scan loops have stopped and nothing runs, every scan loop has released
\* its slot and every archive row has both markers.
C5_AllArchivesScannedWhenStopped ==
    (NoJobRunning /\ \E j \in Jobs : kind[j] = "scan" /\ pc[j] \in StoppedPcs)
        => /\ \A j \in Jobs : kind[j] = "scan" /\ pc[j] \in StoppedPcs => pc[j] = "done"
           /\ \A f \in DOMAIN files : /\ IsSet(files[f].scan_started_at)
                                      /\ IsSet(files[f].scan_ended_at)

\* C6: a started thumbnail loop always ends by finding no row to process
\* and releasing its slot, also when an image cannot be decoded or encoded:
\* a thumbnail loop never stops in any other way.
C6_ThumbnailLoopStopsReleased ==
    \A j \in Jobs : kind[j] = "thumb" /\ pc[j] \in StoppedPcs => pc[j] = "done"

MediaOfFeed(feed_id) == SelectSeq(media, LAMBDA m : m.feed_id = feed_id)
C9_MediaNumbering ==
    \A feed_id \in {media[i].feed_id : i \in DOMAIN media} :
        \A k \in 1..Len(MediaOfFeed(feed_id)) : MediaOfFeed(feed_id)[k].media_id = k

\* a feed with two Media rows
C9_Witness ==
    \E feed_id \in {media[i].feed_id : i \in DOMAIN media} : Len(MediaOfFeed(feed_id)) >= 2

\* C10: no archive ever has scan_ended_at set while scan_started_at is
\* unset, and after a full scan pass (nothing runs, a scan loop has stopped,
\* no archive is left unscanned) every archive that can be read has both
\* markers with scan_started_at <= scan_ended_at.
FullScanPass ==
    /\ NoJobRunning
    /\ clean_pc = "idle"
    /\ \E j \in Jobs : kind[j] = "scan" /\ pc[j] = "done"
    /\ Unscanned = {}
C10_PartB ==
    \A f \in DOMAIN files : IsSet(files[f].scan_ended_at) => IsSet(files[f].scan_started_at)
C10_PartA ==
    FullScanPass =>
        \A f \in DOMAIN files :
            CanOpenZip(f) => /\ IsSet(files[f].scan_started_at)
                             /\ IsSet(files[f].scan_ended_at)
                             /\ Unwrap(files[f].scan_started_at) <= Unwrap(files[f].scan_ended_at)
C10_ScanMarkersOrdered == C10_PartA /\ C10_PartB

\* C20: for every time_offset startup accepts (whole hours -24..24), a
\* well-formed "YYYY/MM/DD HH:MM:SS" text parses, and to the epoch second of
\* that local time minus time_offset * 3600: the reconciler does not fail on
\* the row of b.zip dated 1970/01/03 00:00:01, and the Feed row it stores
\* has feed_at = 2 * 86400 + 1 - time_offset * 3600.
C20_WellFormedDateParsed ==
    /\ \A j \in Jobs : pc[j] # "panicked"
    /\ \A f \in feeds : f.feed_id = 42 => f.feed_at = 2 * 86400 + 1 - time_offset * 3600

\* C17: a trigger made while the counter is at its limit is rejected and
\* changes nothing: a request that finds scanner_count >= limit is not
\* accepted, and the step that rejects a request leaves the counter, the
\* tables and every other request and loop as they were (no loop is spawned,
\* no archive is registered or marked).
C17_RejectedTriggerFrame ==
    [][\A j \in Jobs :
          /\ (Free(j) /\ pc'[j] = "checked") => scanner_count < scanner_count_limit
          /\ (pc[j] = "idle" /\ pc'[j] = "rejected") =>
                /\ scanner_count >= scanner_count_limit
                /\ UNCHANGED <<scanner_count, files, feeds, media, kind>>
                /\ \A i \in Jobs \ {j} : pc'[i] = pc[i]]_vars

\* a request was rejected at the limit with an archive registered
C17_Witness ==
    \E j \in Jobs : /\ pc[j] = "rejected"
                     /\ scanner_count = scanner_count_limit
                     /\ "a.zip" \in DOMAIN files

\* the data directory of the end-to-end case: a.zip whose export.csv has at
\* row 7 the tweet 42 of bob with the image img/x.jpg
EndToEndArchive == "a.zip" \in DOMAIN disk /\ disk["a.zip"] = ArchiveA
IsMedia42_1(m) == m.feed_id = 42 /\ m.media_id = 1

\* C18: end to end on that a.zip.  The step that commits the scan of its
\* export.csv leaves a Feed row with feed_id 42 and a Media row (42, 1) for
\* http://img/x.jpg / img/x.jpg of type Image, and every Media row it adds
\* has thumbnail null; when a thumbnail generation that runs after that scan
\* ends (its loop finds no pending row), Media (42, 1) has a non-null
\* thumbnail.
C18_EndToEnd ==
    [][EndToEndArchive =>
         /\ (<<"a.zip", 1>> \notin committed /\ <<"a.zip", 1>> \in committed') =>
               /\ \E f \in feeds' : f.feed_id = 42 /\ f.retweet_id = 0
               /\ \E i \in DOMAIN media' :
                     /\ IsMedia42_1(media'[i])
                     /\ media'[i].media_type = "Image"
                     /\ media'[i].media_url = "http://img/x.jpg"
                     /\ media'[i].file_path = "a.zip"
                     /\ media'[i].media_path = "img/x.jpg"
               /\ \A i \in DOMAIN media' :
                     i \notin DOMAIN media => media'[i].thumbnail = None
         /\ \A j \in Jobs :
               (/\ kind[j] = "thumb" /\ pc[j] = "pick" /\ pc'[j] = "release"
                /\ <<"a.zip", 1>> \in committed) =>
                  \E i \in DOMAIN media :
                     IsMedia42_1(media[i]) /\ media[i].thumbnail # None]_vars

\* a thumbnail generation has ended after the scan of a.zip, and Media
\* (42, 1) has its thumbnail
C18_Witness ==
    /\ EndToEndArchive
    /\ <<"a.zip", 1>> \in committed
    /\ \E j \in Jobs : kind[j] = "thumb" /\ pc[j] = "done"
    /\ \E f \in feeds : f.feed_id = 42
    /\ \E i \in DOMAIN media : IsMedia42_1(media[i]) /\ media[i].thumbnail # None

\* the archive of Media row m is not in the data directory, or its entry
\* m.media_path is missing from the archive or cannot be read
BackingFileGone(m) ==
    \/ m.file_path \notin DOMAIN disk
    \/ /\ CanOpenZip(m.file_path)
       /\ \/ m.media_path \notin DOMAIN disk[m.file_path].entries
          \/ disk[m.file_path].entries[m.media_path] \in {"encrypted", "corrupt"}

\* C11: one generation attempt for a Media row whose backing archive does not
\* exist, or whose entry is missing or unreadable, leaves the row (whose
\* thumbnail is null) with deleted_at non-null and thumbnail still null.
C11_GoneMediaSoftDeleted ==
    [][\A j \in Jobs :
          (/\ pc[j] = "generate" /\ pc'[j] # "generate"
           /\ BackingFileGone(Unwrap(media_local[j]))) =>
             \A i \in DOMAIN media :
                (/\ MediaKey(media[i]) = MediaKey(Unwrap(media_local[j]))
                 /\ media[i].thumbnail = None) =>
                   /\ i \in DOMAIN media'
                   /\ media'[i].deleted_at # None
                   /\ media'[i].thumbnail = None]_vars

\* the archive of Media row m is not in the data directory, or the archive
\* has no entry m.media_path
BackingFileMissing(m) ==
    \/ m.file_path \notin DOMAIN disk
    \/ CanOpenZip(m.file_path) /\ m.media_path \notin DOMAIN disk[m.file_path].entries

\* C15: both media endpoints answer not-found for a feed_id or media_id that
\* is no integer, for a pair without Media row, for a row whose archive or
\* archive entry is missing (the preview endpoint: when it has no cached
\* thumbnail to serve instead), and for a soft-deleted row.
C15_MediaNotFound ==
    \A param_feed_id, param_media_id \in PathParams :
       LET feed_id == ParsePathParam(param_feed_id)
           media_id == ParsePathParam(param_media_id)
           file == media_file_service(media, param_feed_id, param_media_id)
           preview == media_preview_service(media, param_feed_id, param_media_id).response
       IN IF feed_id = None \/ media_id = None
          THEN file = NotFound /\ preview = NotFound
          ELSE LET rows == get_media(media, Unwrap(feed_id), Unwrap(media_id))
               IN /\ rows = {} => file = NotFound /\ preview = NotFound
                  /\ \A i \in rows :
                        /\ BackingFileMissing(media[i]) =>
                              /\ file = NotFound
                              /\ media[i].thumbnail = None => preview = NotFound
                        /\ media[i].deleted_at # None =>
                              file = NotFound /\ preview = NotFound

\* C16: a preview request for an Image Media row that is not soft-deleted
\* and has no cached thumbnail (and whose archive entry is a readable image)
\* generates the preview, stores it in the thumbnail column of that row and
\* of no other, and serves it; a request for such a row that has a cached
\* thumbnail, the next request for the same pair included, serves the stored
\* bytes, generates nothing and writes nothing.  A request for a row that is
\* no Image is answered not-found.
C16_PreviewGeneratedOnceThenCached ==
    \A param_feed_id, param_media_id \in PathParams :
       LET feed_id == ParsePathParam(param_feed_id)
           media_id == ParsePathParam(param_media_id)
           first == media_preview_service(media, param_feed_id, param_media_id)
           later == media_preview_service(first.media, param_feed_id, param_media_id)
       IN (feed_id # None /\ media_id # None) =>
          \A i \in get_media(media, Unwrap(feed_id), Unwrap(media_id)) :
             /\ media[i].media_type # "Image" =>
                   first.response = NotFound /\ first.media = media
             /\ (/\ media[i].media_type = "Image" /\ media[i].deleted_at = None
                 /\ media[i].thumbnail # None) =>
                   /\ first.response.status = "200"
                   /\ first.response.body = Unwrap(media[i].thumbnail)
                   /\ ~first.response.generated
                   /\ first.media = media
             /\ (/\ media[i].media_type = "Image" /\ media[i].deleted_at = None
                 /\ media[i].thumbnail = None
                 /\ ArchiveEntry(media[i].file_path, media[i].media_path) = "image") =>
                   /\ first.response.status = "200"
                   /\ first.response.generated
                   /\ first.media[i].thumbnail = Some(first.response.body)
                   /\ \A k \in DOMAIN media : k # i => first.media[k] = media[k]
                   /\ later.response.status = "200"
                   /\ later.response.body = first.response.body
                   /\ ~later.response.generated
                   /\ later.media = first.media

\* a preview was generated on request and is cached in Media (42, 1), next
\* to a row that still has none and a row that is no Image
C16_Witness ==
    /\ \E i \in DOMAIN media :
          /\ IsMedia42_1(media[i]) /\ media[i].thumbnail # None
          /\ media[i].deleted_at = None
    /\ \E i \in DOMAIN media : media[i].media_type = "Image" /\ media[i].thumbnail = None
    /\ \E i \in DOMAIN media : media[i].media_type = "Video"

\* C12: listFeeds with has_media_only = true returns only feeds that have at
\* least one Media row whose deleted_at is null; a feed whose Media rows are
\* all soft-deleted is not returned.
C12_HasMediaOnlyNotDeleted ==
    \A rows \in feeds_service(feeds, media,
                              FeedsQuery(None, None, Some(TRUE), None, None)).feeds :
        \A k \in DOMAIN rows :
            \E i \in DOMAIN media :
                media[i].feed_id = rows[k].feed_id /\ media[i].deleted_at = None

\* keyword occurs in text as a literal substring
ContainsLiteral(text, keyword) ==
    \E i \in 0..(Len(text) - Len(keyword)) : SubSeq(text, i + 1, i + Len(keyword)) = keyword

\* keywords with a literal "%" that a request may carry
PercentKeywords == {<<"%">>, <<"0", "%">>}

\* C13: a listFeeds keyword containing a literal "%" matches only feeds whose
\* contents contain that keyword as a literal substring; the "%" inside the
\* keyword never acts as a wildcard.
C13_PercentKeywordLiteral ==
    \A keyword \in PercentKeywords :
        \A rows \in feeds_service(feeds, media,
                                  FeedsQuery(None, Some(keyword), None, None, None)).feeds :
            \A k \in DOMAIN rows :
                /\ rows[k].contents # None
                /\ ContainsLiteral(Unwrap(rows[k].contents), keyword)

\* the user_name parameters a request may carry
UserNames ==
    {<<>>, <<"a", "c", "e">>, <<"@", "a", "c", "e">>, <<"@", "A", "C", "E">>,
     <<"b", "e", "a">>, <<"@", "B", "e", "a">>, <<"@">>}

\* the row sequences listFeeds may return for a user_name parameter
FeedsOfUser(user_name) ==
    feeds_service(feeds, media, FeedsQuery(user_name, None, None, None, None)).feeds

\* C14: user-name normalisation enforces a leading "@" and preserves case:
\* "ace" and "@ace" normalise to the same filter "@ace", normalising a
\* normalised name changes nothing, an empty name yields no filter, and
\* listFeeds with user_name "ace", "@ace" and "@ACE" returns identical result
\* sets (the stored names are lower case).
C14_UserNameNormalised ==
    /\ fix_user_name(Some(<<"a", "c", "e">>)) = Some(<<"@", "a", "c", "e">>)
    /\ fix_user_name(Some(<<"@", "a", "c", "e">>)) = Some(<<"@", "a", "c", "e">>)
    /\ fix_user_name(Some(<<"@", "A", "C", "E">>)) = Some(<<"@", "A", "C", "E">>)
    /\ \A u \in UserNames :
          /\ fix_user_name(fix_user_name(Some(u))) = fix_user_name(Some(u))
          /\ u # <<>> => Head(Unwrap(fix_user_name(Some(u)))) = "@"
    /\ fix_user_name(Some(<<>>)) = None
    /\ fix_user_name(None) = None
    /\ ~get_feeds_query(FeedsQuery(fix_user_name(Some(<<>>)), None, None, None, None)).user_name
    /\ FeedsOfUser(Some(<<>>)) = FeedsOfUser(None)
    /\ FeedsOfUser(Some(<<"a", "c", "e">>)) = FeedsOfUser(Some(<<"@", "a", "c", "e">>))
    /\ FeedsOfUser(Some(<<"@", "A", "C", "E">>)) = FeedsOfUser(Some(<<"@", "a", "c", "e">>))
    /\ \A rows \in FeedsOfUser(Some(<<"a", "c", "e">>)) :
          \A k \in DOMAIN rows : rows[k].user_name = <<"@", "a", "c", "e">>

\* the rows of @ace and a row of @bea are stored, and listFeeds for "@ACE"
\* returns the former and not the latter
C14_Witness ==
    /\ \E f \in feeds : f.user_name = <<"@", "b", "e", "a">>
    /\ \E rows \in FeedsOfUser(Some(<<"@", "A", "C", "E">>)) :
          /\ Len(rows) = 3
          /\ \A k \in DOMAIN rows : rows[k].user_name = <<"@", "a", "c", "e">>

\* the page and count parameters a request may carry
Pages == {None, Some(0), Some(1), Some(2), Some(-1)}
Counts == {None, Some(0), Some(1), Some(2), Some(-1)}

\* the sequences that hold every row of rows once, latest feed_at first
FeedAtDescending(rows) ==
    {order \in UNION {[1..n -> rows] : n \in {Cardinality(rows)}} :
        /\ \A r \in rows : \E a \in DOMAIN order : order[a] = r
        /\ \A a, b \in DOMAIN order : a < b => order[a].feed_at >= order[b].feed_at}

\* the rows of order at the positions from .. from + count - 1, counted from 0
PositionsOf(order, from, count) ==
    LET at == {pos \in from..(from + count - 1) : 0 <= pos /\ pos < Len(order)}
    IN [k \in 1..Cardinality(at) |-> order[from + k]]

\* C19: listFeeds returns the filtered feeds ordered by feed_at descending and
\* sliced by offset = page * count and limit = count, page defaulting to 0
\* and count to 100: the result holds at most count rows and is exactly the
\* rows at positions page * count .. page * count + count - 1 of the ordered
\* filtered set (for a negative count: no row).
C19_OrderedAndPaginated ==
    \A page \in Pages, count \in Counts, user_name \in {None, Some(<<"a", "c", "e">>)} :
        LET p == IF page = None THEN 0 ELSE Unwrap(page)
            c == IF count = None THEN 100 ELSE Unwrap(count)
            filtered == {f \in feeds :
                            user_name # None => f.user_name = <<"@", "a", "c", "e">>}
            response == feeds_service(feeds, media,
                                      FeedsQuery(user_name, None, None, page, count))
        IN /\ ~response.panicked
           /\ response.query.page = Some(p) /\ response.query.count = Some(c)
           /\ \A rows \in response.feeds :
                 /\ Len(rows) <= (IF c < 0 THEN 0 ELSE c)
                 /\ \E order \in FeedAtDescending(filtered) :
                       rows = PositionsOf(order, p * c, c)

\* the directory whose a.zip holds the row with the feed_date that is no date
BadDateDir == "a.zip" :> ArchiveBadDate @@ "b.zip" :> ArchiveB

\* C21: a data row whose feed_date cannot be parsed is skipped entirely, also
\* when its action_date is valid: it inserts no Feed, no retweet and no
\* Media row (tweet 61), and the scan goes on with the following rows and
\* the following archives: the loop does not stop at the row, and once the
\* loop is past a.zip the following row (tweet 62) is stored.
C21_BadFeedDateSkipped ==
    disk = BadDateDir =>
        /\ \A f \in feeds : f.feed_id # 61 /\ f.retweet_id # 61
        /\ \A i \in DOMAIN media : media[i].feed_id # 61
        /\ \A j \in Jobs : pc[j] # "panicked"
        /\ ("a.zip" \in DOMAIN files /\ files["a.zip"].scan_ended_at # None)
              => \E f \in feeds : f.feed_id = 62

\* the Feed rows of the retweet event of tweet id by user, at retweet_at
RetweetEventRows(id, user, retweet_at) ==
    {f \in feeds : /\ f.retweet_id = id
                   /\ f.retweet_user_name = user
                   /\ f.user_name = <<"@", "a", "l", "i", "c", "e">>
                   /\ f.feed_at = retweet_at}

\* the Feed rows of the original content of tweet id, at feed_at
OriginalRows(id, feed_at) ==
    {f \in feeds : f.feed_id = id /\ f.retweet_id = 0 /\ f.feed_at = feed_at}

\* C22: every retweet-typed data row produces two Feed rows, one for the
\* original content (feed_id = the id in the URL, retweet_id = 0, feed_at =
\* feed_date) and one for the retweet event (retweet_id = that id,
\* retweet_user_name = the row's user, user_name = origin, feed_at =
\* action_date): once the csv entry of ArchiveA, with its retweet rows for
\* tweets 43 and 44, is committed, both originals and both retweet events
\* are stored.
C22_RetweetRowsStored ==
    (disk = "a.zip" :> ArchiveA /\ <<"a.zip", 1>> \in committed) =>
        /\ Cardinality(OriginalRows(43, 86400)) = 1
        /\ Cardinality(OriginalRows(44, 86400)) = 1
        /\ Cardinality(RetweetEventRows(43, <<"c", "a", "l">>, 2 * 86400 + 1)) = 1
        /\ Cardinality(RetweetEventRows(44, <<"d", "e", "b">>, 2 * 86400 + 1)) = 1
        /\ Cardinality({f \in feeds : f.retweet_id # 0}) = 2

\* C23: a data row is treated as a retweet only if its action_date parses to
\* a timestamp distinct from its feed_date; a row whose action_date parses to
\* the timestamp of feed_date (tweet 63) or does not parse (tweet 64)
\* produces exactly one plain Feed row with retweet_id = 0 and no
\* retweet-event row.
C23_RetweetOnlyIfDistinctDate ==
    (disk = "a.zip" :> ArchiveSameDate /\ <<"a.zip", 1>> \in committed) =>
        \A id \in {63, 64} :
            /\ Cardinality({f \in feeds : f.feed_id = id /\ f.retweet_id = 0}) = 1
            /\ \A f \in feeds : f.retweet_id # id

\* C24: first insert wins: once a Feed row exists for a feed_id, every later
\* insert for the same feed_id, from the same or another archive and in any
\* order, leaves the row as it is and adds no other row of that feed_id (no
\* step of a scan changes user_name, feed_at, twitter_url, contents,
\* retweet_id or retweet_user_name of a stored row).
C24_FirstInsertWins ==
    [][\A f \in feeds : {g \in feeds' : g.feed_id = f.feed_id} = {f}]_vars

\* both archives are scanned, b.zip first: tweet 42 carries the feed_at of
\* b.zip, and the rows of a.zip for tweet 42 (another feed_at) and for the
\* second retweet event were inserted after it
C24_Witness ==
    /\ disk = "a.zip" :> ArchiveA @@ "b.zip" :> ArchiveB
    /\ committed = {<<"a.zip", 1>>, <<"b.zip", 1>>}
    /\ \E f \in feeds : f.feed_id = 42 /\ f.feed_at = 2 * 86400 + 1
    /\ \E f \in feeds : f.feed_id = 43

\* job j is a thumbnail loop between picking a Media row and the end of its
\* generation attempt on it
Attempting(j) == pc[j] = "generate" /\ media_local[j] # None

\* C25: within the thumbnail work started by one trigger each pending image
\* Media row gets exactly one generation attempt: no row is attempted by two
\* loops at once, and a row a loop has attempted and gone on from is no
\* longer pending, so that no loop picks it again.
C25_OneAttemptPerRow ==
    [][\A j \in Jobs :
          Attempting(j) =>
              LET m == Unwrap(media_local[j])
              IN /\ \A k \in Jobs \ {j} :
                       Attempting(k) => MediaKey(Unwrap(media_local[k])) # MediaKey(m)
                 /\ pc'[j] = "pick" =>
                       \A i \in DOMAIN media' :
                           MediaKey(media'[i]) = MediaKey(m) =>
                               media'[i].thumbnail # None \/ media'[i].deleted_at # None]_vars

\* the image of Media row m is one that fails to decode or to re-encode
ImageFails(m) == ZipEntry(m) \in {"undecodable", "unencodable"}

\* C26: when decoding or re-encoding the image of a Media row fails, the
\* failure is confined to that item: the row keeps thumbnail null and
\* deleted_at null, and the thumbnail loop is not aborted but goes on to
\* pick the next pending row.
C26_ImageFailureConfined ==
    [][\A j \in Jobs :
          (Attempting(j) /\ ImageFails(Unwrap(media_local[j])) /\ pc'[j] # "generate") =>
              /\ pc'[j] = "pick"
              /\ \A i \in DOMAIN media' :
                    MediaKey(media'[i]) = MediaKey(Unwrap(media_local[j])) =>
                        media'[i].thumbnail = None /\ media'[i].deleted_at = None]_vars

\* the Media rows whose deleted_at is set
SoftDeleted == {i \in DOMAIN media : media[i].deleted_at # None}

\* listFeeds without a filter returns the feed of Media row m with m among
\* its media
ListedWithFeed(m) ==
    \A response \in FeedsResponseFeeds(feeds, media, FeedsQuery(None, None, None, None, None)) :
        \A f \in feeds :
            f.feed_id = m.feed_id =>
                \E k \in DOMAIN response :
                    /\ response[k].type = "Feed" /\ response[k].feed_id = m.feed_id
                    /\ response[k].media # None
                    /\ \E n \in DOMAIN Unwrap(response[k].media) :
                          Unwrap(response[k].media)[n] = m

\* C27: a Media row with deleted_at set is never selected by the background
\* thumbnail loop and never served by the preview endpoint, no operation
\* other than clean clears its deleted_at, and listFeeds still returns it as
\* metadata attached to its feed.
C27_SoftDeletedLeftAlone ==
    [][/\ \A j \in Jobs :
             (pc[j] = "pick" /\ pc'[j] = "generate") =>
                 \A i \in SoftDeleted :
                     MediaKey(media[i]) # MediaKey(Unwrap(media_local'[j]))
       /\ \A i \in SoftDeleted :
             \A param_feed_id, param_media_id \in PathParams :
                 (/\ ParsePathParam(param_feed_id) = Some(media[i].feed_id)
                  /\ ParsePathParam(param_media_id) = Some(media[i].media_id)) =>
                     LET answer == media_preview_service(media, param_feed_id, param_media_id)
                     IN answer.response = NotFound /\ answer.media = media
       /\ \A i \in SoftDeleted :
             \/ clean_pc = "delete_media" /\ media' = <<>>
             \/ /\ i \in DOMAIN media'
                /\ MediaKey(media'[i]) = MediaKey(media[i])
                /\ media'[i].deleted_at # None
       /\ \A i \in SoftDeleted : ListedWithFeed(media[i])]_vars

\* image row (42, 2) is soft-deleted and its feed stored, a thumbnail loop
\* is about to select a row, and a preview of (42, 2) is asked for
C27_Witness ==
    /\ \E i \in SoftDeleted :
          /\ media[i].feed_id = 42 /\ media[i].media_id = 2
          /\ media[i].media_type = "Image"
    /\ \E f \in feeds : f.feed_id = 42
    /\ \E j \in Jobs : pc[j] = "pick" /\ kind[j] = "thumb"
    /\ media_preview_service(media, <<"4", "2">>, <<"2">>).response = NotFound

\* user_name parameters with a "_" or a "%" in them
WildcardUserNames == {<<"@", "a", "_", "e">>, <<"@", "%">>, <<"@", "a", "c", "e">>}

\* C28: the listFeeds user_name filter is an exact match: a feed is returned
\* under the filter only if its stored user_name equals the normalised
\* filter value character for character, so "_" and "%" in the requested
\* name match only themselves.
C28_UserNameExactMatch ==
    \A user_name \in WildcardUserNames :
        \A rows \in FeedsOfUser(Some(user_name)) :
            \A k \in DOMAIN rows :
                rows[k].user_name = Unwrap(fix_user_name(Some(user_name)))

\* item is what listFeeds makes of a row of the store fs: a Feed for a row
\* with retweet_id = 0, media attached exactly when the feed has a Media
\* row; a Retweet for any other row, the original nested exactly when fs
\* holds a row with feed_id = retweet_id
ClassifiedFrom(fs, item) ==
    LET HasMedia(id) == \E i \in DOMAIN media : media[i].feed_id = id
        FeedOf(it, f) ==
            /\ it.type = "Feed" /\ f.retweet_id = 0
            /\ it.feed_id = f.feed_id /\ it.feed_at = f.feed_at
            /\ it.user_name = f.user_name /\ it.contents = f.contents
            /\ (it.media # None) <=> HasMedia(f.feed_id)
            /\ it.media # None =>
                  \A n \in DOMAIN Unwrap(it.media) : Unwrap(it.media)[n].feed_id = f.feed_id
    IN \E f \in fs :
          \/ FeedOf(item, f)
          \/ /\ item.type = "Retweet" /\ f.retweet_id # 0
             /\ item.retweet_id = f.retweet_id /\ item.retweet_at = f.feed_at
             /\ item.user_name = f.user_name
             /\ item.retweet_user_name = f.retweet_user_name
             /\ (item.retweet # None) <=> (\E g \in fs : g.feed_id = f.retweet_id)
             /\ item.retweet # None =>
                   \E g \in fs : g.feed_id = f.retweet_id /\ FeedOf(Unwrap(item.retweet), g)

\* C29: listFeeds classifies each returned row from retweet_id: retweet_id =
\* 0 gives a Feed, any other value a Retweet; a Retweet embeds the nested
\* original Feed exactly when a Feed row with feed_id = retweet_id exists and
\* is returned without one when the original is not stored; Media is
\* attached to a Feed only when that feed has a Media row.  Stated of the
\* store and of every part of it, so that stores without the original of a
\* retweet are among them.
C29_FeedOrRetweet ==
    \A fs \in SUBSET feeds :
        \A response \in FeedsResponseFeeds(fs, media, FeedsQuery(None, None, None, None, None)) :
            /\ Len(response) = Cardinality(fs)
            /\ Cardinality({k \in DOMAIN response : response[k].type = "Retweet"})
                  = Cardinality({f \in fs : f.retweet_id # 0})
            /\ \A k \in DOMAIN response : ClassifiedFrom(fs, response[k])

\* the store holds the retweet of tweet 54, tweet 54 with its image, and
\* tweet 51 without media, and listFeeds returns the Retweet with tweet 54
\* and its media nested
C29_Witness ==
    /\ \E f \in feeds : f.feed_id = 51
    /\ \E response \in FeedsResponseFeeds(feeds, media,
                                           FeedsQuery(None, None, None, None, None)) :
          /\ \E k \in DOMAIN response :
                /\ response[k].type = "Retweet" /\ response[k].retweet_id = 54
                /\ response[k].retweet # None
                /\ Unwrap(response[k].retweet).feed_id = 54
                /\ Unwrap(response[k].retweet).media # None
          /\ \E k \in DOMAIN response :
                /\ response[k].type = "Feed" /\ response[k].feed_id = 51
                /\ response[k].media = None

\* a scan loop is at work on archive f
ScanAtWork(f) == \E j \in Jobs : file_name[j] = f /\ pc[j] \in {"open", "entries", "end"}

\* C30: for an archive that can be opened, scan_ended_at is set after its
\* csv entries are processed regardless of per-row failures: an archive that
\* is started and not ended has a scan loop at work on it (no row stops the
\* loop), and an ended archive has had every csv entry processed.
C30_ScanEndsDespiteRowFailures ==
    \A f \in DOMAIN files :
        (CanOpenZip(f) /\ files[f].scan_started_at # None) =>
            /\ files[f].scan_ended_at = None => ScanAtWork(f)
            /\ files[f].scan_ended_at # None =>
                  \A n \in DOMAIN disk[f].csvs : <<f, n>> \in committed

(***************************************************************************)
(* Scans and cleans over a data directory holding an archive that cannot   *)
(* be opened next to one that can.                                         *)
(***************************************************************************)
SpecStuck ==
    /\ InitWith(MaxLoops, {"a.zip" :> ArchiveCorrupt @@ "b.zip" :> ArchiveB},
                {DEFAULT_TIME_OFFSET_HOUR})
    /\ [][NextQuery]_vars

\* the row of an archive that cannot be opened, after a scan loop marked it
StartedNotEnded(f) ==
    /\ f \in DOMAIN files
    /\ ~CanOpenZip(f)
    /\ IsSet(files[f].scan_started_at) /\ ~IsSet(files[f].scan_ended_at)

\* C31: an archive that cannot be opened ends with scan_started_at set and
\* scan_ended_at unset (the loop marks it, fails to open it and is gone
\* without marking the end), and stays in that state: no step unsets
\* scan_started_at or sets scan_ended_at, no scan loop selects it again, and
\* only the DELETE FROM files of clean removes the row.
C31_UnopenableArchiveStaysStarted ==
    [][/\ \A j \in Jobs :
            /\ (pc[j] = "start" /\ pc'[j] = "open" /\ ~CanOpenZip(file_name[j])
                    /\ file_name[j] \in DOMAIN files)
                 => StartedNotEnded(file_name[j])'
            /\ (pc[j] = "open" /\ ~CanOpenZip(file_name[j]))
                 => pc'[j] \in {"open", "panicked"}
       /\ \A f \in DOMAIN files :
            StartedNotEnded(f) =>
                /\ \/ StartedNotEnded(f)'
                   \/ f \notin DOMAIN files' /\ clean_pc = "delete_files"
                /\ \A j \in Jobs : (pc[j] = "pick" /\ pc'[j] = "start") => file_name'[j] # f]_vars

\* a.zip could not be opened and is left started, and a later scan trigger
\* has gone through the archives without selecting it
C31_Witness ==
    /\ StartedNotEnded("a.zip")
    /\ \E j \in Jobs : pc[j] = "panicked" /\ file_name[j] = "a.zip"
    /\ \E j \in Jobs : kind[j] = "scan" /\ pc[j] = "done"
    /\ "b.zip" \in DOMAIN files /\ IsSet(files["b.zip"].scan_ended_at)
    /\ files["a.zip"].scan_started_at = Some(0) /\ files["b.zip"].scan_started_at = Some(1)

\* C32: register() is idempotent: every run of it leaves exactly one archive
\* row per zip file name of the data directory, new rows with both markers
\* unset, and the row of an archive that was registered before keeps its
\* scan_started_at and scan_ended_at; over a directory that is registered
\* already it changes nothing.
C32_RegisterIdempotent ==
    [][\A j \in Jobs :
         (pc[j] = "list" /\ pc'[j] = "pick") =>
            /\ DOMAIN files' = DOMAIN files \cup {FileKey(f) : f \in DOMAIN disk}
            /\ \A f \in DOMAIN files : files'[f] = files[f]
            /\ \A f \in DOMAIN files' \ DOMAIN files : files'[f] = FileRow(None, None)
            /\ DOMAIN disk \subseteq DOMAIN files => files' = files]_vars

\* the directory was registered and b.zip scanned to its end, and a second
\* scan request is registering the same directory
C32_Witness ==
    /\ DOMAIN files = DOMAIN disk
    /\ IsSet(files["b.zip"].scan_started_at) /\ IsSet(files["b.zip"].scan_ended_at)
    /\ \E j \in Jobs : pc[j] = "list"
    /\ \E j \in Jobs : kind[j] = "scan" /\ pc[j] \in {"pick", "panicked", "release", "done"}

(***************************************************************************)
(* Scans of archives with several csv entries.                             *)
(***************************************************************************)
\* an archive with two csv entries whose six leading rows read like data
\* rows (tweets 71 to 76, the first with an image, the second retweeted;
\* row 3 carries the origin): an export of @Alice with tweet 77, and one of
\* @BEA with tweet 78, retweeted
ArchiveOrigins ==
    LET LeadingRows(origin) ==
            << CsvRecord(Day1, Text(<<>>), <<"B", "o", "b">>,
                         StatusUrl(<<"b", "o", "b">>, <<7, 1>>),
                         "Image", "http://img/h.jpg", "img/h.jpg", <<"h", "i">>),
               CsvRecord(Day1, Day2, <<"C", "a", "l">>,
                         StatusUrl(<<"c", "a", "l">>, <<7, 2>>), "", "", "", <<"y", "o">>),
               CsvRecord(Day1, Text(origin), <<"B", "o", "b">>,
                         StatusUrl(<<"b", "o", "b">>, <<7, 3>>), "", "", "", <<"h", "i">>),
               CsvRecord(Day1, Text(<<>>), <<"B", "o", "b">>,
                         StatusUrl(<<"b", "o", "b">>, <<7, 4>>), "", "", "", <<"h", "i">>),
               CsvRecord(Day1, Text(<<>>), <<"B", "o", "b">>,
                         StatusUrl(<<"b", "o", "b">>, <<7, 5>>), "", "", "", <<"h", "i">>),
               CsvRecord(Day1, Text(<<>>), <<"B", "o", "b">>,
                         StatusUrl(<<"b", "o", "b">>, <<7, 6>>), "", "", "", <<"h", "i">>) >>
        CsvOriginAlice ==
            LeadingRows(<<"@", "A", "l", "i", "c", "e">>) \o
            << CsvRecord(Day1, Text(<<>>), <<"B", "o", "b">>,
                         StatusUrl(<<"b", "o", "b">>, <<7, 7>>),
                         "Image", "http://img/h.jpg", "img/h.jpg", <<"h", "i">>) >>
        CsvOriginBea ==
            LeadingRows(<<"@", "B", "E", "A">>) \o
            << CsvRecord(Day1, Day2, <<"C", "a", "l">>,
                         StatusUrl(<<"c", "a", "l">>, <<7, 8>>), "", "", "", <<"y", "o">>) >>
    IN [is_zip |-> TRUE, csvs |-> <<CsvOriginAlice, CsvOriginBea>>,
        entries |-> ("img/h.jpg" :> "image")]

\* an archive whose first csv entry holds tweets 81 and 82 and whose second
\* holds tweet 83 and then tweet 84 with a feed_date that is no date
ArchiveTwoEntries ==
    LET CsvFirstEntry ==
            Header \o
            << CsvRecord(Day1, Text(<<>>), <<"B", "o", "b">>,
                         StatusUrl(<<"b", "o", "b">>, <<8, 1>>),
                         "Image", "http://img/x.jpg", "img/x.jpg", <<"h", "i">>),
               CsvRecord(Day2, Text(<<>>), <<"C", "a", "l">>,
                         StatusUrl(<<"c", "a", "l">>, <<8, 2>>), "", "", "", <<"y", "o">>) >>
        CsvSecondEntry ==
            Header \o
            << CsvRecord(Day1, Text(<<>>), <<"B", "o", "b">>,
                         StatusUrl(<<"b", "o", "b">>, <<8, 3>>),
                         "Image", "http://img/y.jpg", "img/y.jpg", <<"h", "i">>),
               CsvRecord(Text(<<"x">>), Day2, <<"C", "a", "l">>,
                         StatusUrl(<<"c", "a", "l">>, <<8, 4>>), "", "", "", <<"y", "o">>) >>
    IN [is_zip |-> TRUE, csvs |-> <<CsvFirstEntry, CsvSecondEntry>>,
        entries |-> ("img/x.jpg" :> "image" @@ "img/y.jpg" :> "image")]

InitEntries ==
    InitWith(MaxLoops, { "a.zip" :> ArchiveOrigins,
                         "a.zip" :> ArchiveTwoEntries @@ "b.zip" :> ArchiveB },
             {DEFAULT_TIME_OFFSET_HOUR})

SpecEntries == InitEntries /\ [][NextReconcile]_vars

\* the csv entries of the data directory: <<file name, number>>
CsvEntries == {e \in (DOMAIN disk) \X (1..2) : e[2] \in DOMAIN disk[e[1]].csvs}

\* C33: in each csv entry rows 1 to 6 never produce Feed or Media rows (no
\* stored row carries a tweet id that only such a row names) and data rows
\* start at row 7 (once the entry is committed the tweet of its row 7 is
\* stored); the user_name of every retweet-event row is the lower-cased
\* action_date of row 3 of the entry whose data row produced it.
C33_HeaderRowsAndOrigin ==
    LET EntryCsv(e) == disk[e[1]].csvs[e[2]]
        \* the tweet id row k of a csv names, 0 when the row names none
        RowId(csv, k) ==
            IF csv[k].well_formed /\ TWITTER_URL_REGEX(csv[k].twitter_url)
            THEN ParseI64(csv[k].twitter_url.digits) ELSE 0
    IN
    /\ \A e \in CsvEntries : \A k \in 1..6 :
          LET id == RowId(EntryCsv(e), k)
          IN (id # 0 /\ \A e2 \in CsvEntries : \A k2 \in 7..Len(EntryCsv(e2)) :
                                                  RowId(EntryCsv(e2), k2) # id)
                => /\ \A f \in feeds : f.feed_id # id /\ f.retweet_id # id
                   /\ \A i \in DOMAIN media : media[i].feed_id # id
    /\ \A e \in CsvEntries \cap committed :
          (Len(EntryCsv(e)) >= 7 /\ RowId(EntryCsv(e), 7) # 0)
                => \E f \in feeds : f.feed_id = RowId(EntryCsv(e), 7)
    /\ \A f \in feeds :
          f.retweet_id # 0 =>
             \E e \in CsvEntries \cap committed : \E k \in 7..Len(EntryCsv(e)) :
                /\ RowId(EntryCsv(e), k) = f.retweet_id
                /\ f.user_name = to_ascii_lowercase(EntryCsv(e)[3].action_date.chars)

\* both entries of the archive of @Alice and @BEA are committed: tweets 77
\* and 78 are stored and the retweet event of tweet 78 has user_name @bea
C33_Witness ==
    /\ disk = "a.zip" :> ArchiveOrigins
    /\ {<<"a.zip", 1>>, <<"a.zip", 2>>} \subseteq committed
    /\ \E f \in feeds : f.feed_id = 77
    /\ \E f \in feeds : f.retweet_id = 78 /\ f.user_name = <<"@", "b", "e", "a">>

(***************************************************************************)
(* Scans in which an insert statement can return an error.                 *)
(***************************************************************************)
SpecStorageErrors ==
    InitEntries /\ [][NextReconcile \/ \E j \in Jobs : scan_file_entry_storage_error(j)]_vars

\* C34: each csv entry is reconciled inside its own transaction: in every
\* state, whether the entry was committed or its processing failed, the
\* store shows either all inserts of the entry or none of them, and all
\* inserts of an entry that was committed.
C34_EntryAllOrNothing ==
    \A e \in CsvEntries :
        LET \* the rows the data rows of the entry insert into an empty store
            rows == process_csv([feeds |-> {}, media |-> <<>>, panicked |-> FALSE],
                                disk[e[1]].csvs[e[2]], e[1])
            ids == {f.feed_id : f \in rows.feeds}
            stored == /\ rows.feeds \subseteq feeds
                      /\ \A i \in DOMAIN rows.media :
                            \E k \in DOMAIN media : media[k] = rows.media[i]
            absent == /\ \A f \in feeds : f.feed_id \notin ids
                      /\ \A k \in DOMAIN media : media[k].feed_id \notin ids
        IN /\ stored \/ absent
           /\ e \in committed => stored

\* C35: with two or more scan loops running at once each registered archive
\* is picked and processed by at most one loop: no two loops are ever in
\* the scan of the same archive (in scan_file on it, or between scan_file
\* and the end mark).
C35_OneLoopPerArchive ==
    \A j \in Jobs, k \in Jobs :
        (j # k /\ pc[j] \in {"open", "entries", "end"} /\ pc[k] \in {"open", "entries", "end"})
            => file_name[j] # file_name[k]

\* C36: in every reachable state the Governor counter is at least 0: no
\* sequence of triggers, rejections and loop completions decrements it
\* more often than it was incremented.
C36_CounterNotNegative == scanner_count >= 0

\* two accepted triggers have given their slots back and a third was
\* rejected in between: the counter is back at 0
C36_Witness ==
    /\ scanner_count = 0
    /\ Cardinality({j \in Jobs : pc[j] = "done"}) = 2
    /\ \E j \in Jobs : pc[j] = "rejected"

\* C37: in every reachable state no Media row has both deleted_at non-null
\* and thumbnail non-null, under any interleaving of background thumbnail
\* loops and on-demand preview requests on the same row.
C37_NoThumbnailOnSoftDeleted ==
    \A i \in DOMAIN media : ~(IsSet(media[i].deleted_at) /\ IsSet(media[i].thumbnail))

\* C38: in every reachable state every Media row belongs to an existing
\* feed: for each Media row there is a Feed row whose feed_id equals the
\* Media row's feed_id.
C38_MediaBelongsToFeed ==
    \A i \in DOMAIN media : \E f \in feeds : f.feed_id = media[i].feed_id

(***************************************************************************)
(* Calls of escape_like_str on the keywords of bounded length.             *)
(***************************************************************************)
MaxKeywordLen == 3

\* the keywords: up to MaxKeywordLen characters among a letter, the
\* wildcard, the two-byte character e-acute and the backslash
Keywords == UNION {[1..n -> {"a", "%", "U+00E9", "\\"}] : n \in 0..MaxKeywordLen}

InitEscape ==
    /\ escape_call \in {[input |-> k, called |-> FALSE, output |-> None] : k \in Keywords}
    /\ time_offset = DEFAULT_TIME_OFFSET_HOUR
    /\ scanner_count = 0
    /\ files = <<>>
    /\ feeds = {}
    /\ media = <<>>
    /\ clock = 0
    /\ disk = <<>>
    /\ pc = [j \in 1..MaxScans |-> "idle"]
    /\ kind = [j \in 1..MaxScans |-> "none"]
    /\ file_name = [j \in 1..MaxScans |-> ""]
    /\ zip_index = [j \in 1..MaxScans |-> 0]
    /\ zip = [j \in 1..MaxScans |-> None]
    /\ media_local = [j \in 1..MaxScans |-> None]
    /\ clean_pc = "idle"
    /\ cleans = 0
    /\ committed = {}

\* get_feeds_query escapes the keyword of the request: output is
\* Some(text), or None when escape_like_str panics
escape_keyword ==
    /\ ~escape_call.called
    /\ escape_call' = [escape_call EXCEPT !.called = TRUE,
                                          !.output = escape_like_str(escape_call.input)]
    /\ UNCHANGED <<time_offset, scanner_count, files, feeds, media, clock, disk, pc, kind,
                   file_name, zip_index, zip, media_local, clean_pc, cleans, committed>>

SpecEscape == InitEscape /\ [][escape_keyword]_vars

\* C39: for every input string, including strings with multi-byte
\* characters before the first "%", escape_like_str returns the input with
\* each "%" replaced by "\%" and every other character unchanged and in
\* order, and returns the input itself when it holds no "%".
C39_EscapeLikeStr ==
    LET RECURSIVE PercentEscaped(_)
        PercentEscaped(input) ==
            IF input = <<>> THEN <<>>
            ELSE (IF Head(input) = "%" THEN <<"\\", "%">> ELSE <<Head(input)>>)
                 \o PercentEscaped(Tail(input))
    IN escape_call.called =>
        /\ escape_call.output = Some(PercentEscaped(escape_call.input))
        /\ (\A k \in DOMAIN escape_call.input : escape_call.input[k] # "%")
              => escape_call.output = Some(escape_call.input)
====
